---- MODULE Spec2Model ----
(***************************************************************************)
(* litestore: the predicate-to-query compiler (Query.build,                *)
(* buildWhereClause, joinPredicates), the typed streaming executor         *)
(* (Store.Iter), the single-result resolver (Store.GetOne), Save/Delete    *)
(* and the transaction helpers (InjectTx, GetTx, WithTransaction).         *)
(*                                                                         *)
(* Query text is modelled as a sequence of tokens: the Go string           *)
(* "(a) AND (b)" is the token sequence <<"(", a, ")", "AND", "(", b, ")">>.*)
(* The text "()" is therefore a "(" token immediately followed by ")".     *)
(***************************************************************************)
EXTENDS Integers, Sequences, FiniteSets, TLC

(***************************************************************************)
(* Bounds of the model.                                                    *)
(***************************************************************************)
MaxDepth == 2        \* nesting depth of And/Or above the innermost node
MaxKeys == 3         \* number of distinct row keys
MaxOps == 2          \* Save, Delete and transaction-begin calls in one run

(***************************************************************************)
(* Operators (part_007:100-109) and order directions (part_007:19-22).     *)
(***************************************************************************)
OpEq == "="
OpNEq == "!="
OpGT == ">"
OpGTE == ">="
OpLT == "<"
OpLTE == "<="
OpIn == "IN"
OpNotIn == "NOT IN"
OrderAsc == "ASC"
OrderDesc == "DESC"

\* the nil error
NoErr == [kind |-> "nil"]

\* a nil Predicate interface value (Query.Predicate left unset)
NilPredicate == [type |-> "nil"]

(***************************************************************************)
(* The store under test: Store[TestPersonWithKey] built by newStore.       *)
(* validJSONKeys holds the JSON names of the struct's fields,              *)
(* keyFieldJSONName the JSON name of the field tagged litestore:"key".     *)
(***************************************************************************)
tableName == "t"
validJSONKeys == {"k", "key", "id", "name", "category"}
keyFieldJSONName == "k"

(***************************************************************************)
(* Values of Filter.Value as reflect sees them: Kind() and, for a slice,   *)
(* IsNil() and the elements.                                               *)
(***************************************************************************)
\* Scalar values and slice elements are strings throughout.
Scalar(x) == [kind |-> "scalar", isNil |-> FALSE, elems |-> <<x>>]
UntypedNil == [kind |-> "invalid", isNil |-> TRUE, elems |-> <<>>]
NilSlice == [kind |-> "slice", isNil |-> TRUE, elems |-> <<>>]
Slice(s) == [kind |-> "slice", isNil |-> FALSE, elems |-> s]
Array(s) == [kind |-> "array", isNil |-> FALSE, elems |-> s]

Filter(k, op, v) == [type |-> "Filter", Key |-> k, Op |-> op, Value |-> v]
And(ps) == [type |-> "And", Predicates |-> ps]
Or(ps) == [type |-> "Or", Predicates |-> ps]

\* strings.Contains(field, ".")
ContainsDot(field) == field \in {"a.b", "k.x"}
\* strings.ContainsAny(field, ";)")
ContainsBadChar(field) == field \in {"a;b", "a)b"}

\* "$." + key
JsonPath(key) == "$." \o key

\* the result triple (string, []any, error) of the builders
Ok(sql, args) == [sql |-> sql, args |-> args, err |-> NoErr]
Fail(e) == [sql |-> <<>>, args |-> <<>>, err |-> e]
IsErr(r) == r.err.kind # "nil"

\* the elements of the argument list: a JSON path, a filter value, the limit
PathArg(key) == [path |-> JsonPath(key)]
ValArg(x) == [val |-> x]
LimitArg(n) == [limit |-> n]
ValArgs(values) == [i \in 1..Len(values) |-> ValArg(Scalar(values[i]))]

\* strings.Join over token sequences
RECURSIVE Join(_, _)
Join(parts, sep) ==
    IF Len(parts) = 0 THEN <<>>
    ELSE IF Len(parts) = 1 THEN parts[1]
    ELSE parts[1] \o sep \o Join(Tail(parts), sep)

\* placeholders "?, ?, ?" for n values
Placeholders(n) == Join([i \in 1..n |-> <<"?">>], <<",">>)

\* buildInFilter with the two literals of the empty list exchanged
buildInFilterSwapped(v, validKeys, keyFieldName) ==
    IF v.Value.kind # "slice" /\ v.Value.kind # "array"
    THEN Fail([kind |-> "RequiresSlice", op |-> v.Op])
    ELSE IF v.Value.kind = "slice" /\ v.Value.isNil
    THEN Fail([kind |-> "NilValues", op |-> v.Op])
    ELSE IF Len(v.Value.elems) = 0
    THEN IF v.Op = OpIn THEN Ok(<<"1", "=", "1">>, <<>>)
                        ELSE Ok(<<"1", "=", "0">>, <<>>)
    ELSE Fail([kind |-> "InvalidField", field |-> v.Key])

(***************************************************************************)
(* buildWhereClause, case Filter with Op IN / NOT IN (part_007:151-207).   *)
(***************************************************************************)
buildInFilter(v, validKeys, keyFieldName) ==
    IF v.Value.kind # "slice" /\ v.Value.kind # "array"
    THEN Fail([kind |-> "RequiresSlice", op |-> v.Op])
    ELSE IF v.Value.kind = "slice" /\ v.Value.isNil
    THEN Fail([kind |-> "NilValues", op |-> v.Op])
    ELSE LET values == v.Value.elems IN
         IF Len(values) = 0
         THEN IF v.Op = OpIn THEN Ok(<<"1", "=", "0">>, <<>>)
                             ELSE Ok(<<"1", "=", "1">>, <<>>)
         ELSE LET inClause == Placeholders(Len(values)) IN
              IF keyFieldName # "" /\ v.Key = keyFieldName
              THEN Ok(<<"key", v.Op, "(">> \o inClause \o <<")">>, ValArgs(values))
              ELSE IF ~ContainsDot(v.Key) /\ v.Key \notin validKeys
              THEN Fail([kind |-> "InvalidField", field |-> v.Key])
              ELSE Ok(<<"json_extract(json,", "?", ")", v.Op, "(">> \o inClause \o <<")">>,
                      <<PathArg(v.Key)>> \o ValArgs(values))

\* buildCmpFilter taking a field named "key" or "id" for the key column
buildCmpFilterByName(v, validKeys, keyFieldName) ==
    IF v.Op \notin {OpEq, OpNEq, OpGT, OpGTE, OpLT, OpLTE}
    THEN Fail([kind |-> "UnsupportedOperator", op |-> v.Op])
    ELSE IF v.Key \in {keyFieldName, "key", "id"}
    THEN Ok(<<"key", v.Op, "?">>, <<ValArg(v.Value)>>)
    ELSE IF ~ContainsDot(v.Key) /\ v.Key \notin validKeys
    THEN Fail([kind |-> "InvalidField", field |-> v.Key])
    ELSE Ok(<<"json_extract(json,", "?", ")", v.Op, "?">>, <<PathArg(v.Key), ValArg(v.Value)>>)

\* buildCmpFilter without the JSON path among the arguments
buildCmpFilterNoPath(v, validKeys, keyFieldName) ==
    IF v.Op \notin {OpEq, OpNEq, OpGT, OpGTE, OpLT, OpLTE}
    THEN Fail([kind |-> "UnsupportedOperator", op |-> v.Op])
    ELSE IF keyFieldName # "" /\ v.Key = keyFieldName
    THEN Ok(<<"key", v.Op, "?">>, <<ValArg(v.Value)>>)
    ELSE IF ~ContainsDot(v.Key) /\ v.Key \notin validKeys
    THEN Fail([kind |-> "InvalidField", field |-> v.Key])
    ELSE Ok(<<"json_extract(json,", "?", ")", v.Op, "?">>, <<ValArg(v.Value)>>)

(***************************************************************************)
(* buildWhereClause, case Filter with a comparison operator                *)
(* (part_007:209-232).                                                     *)
(***************************************************************************)
buildCmpFilter(v, validKeys, keyFieldName) ==
    IF v.Op \notin {OpEq, OpNEq, OpGT, OpGTE, OpLT, OpLTE}
    THEN Fail([kind |-> "UnsupportedOperator", op |-> v.Op])
    ELSE IF keyFieldName # "" /\ v.Key = keyFieldName
    THEN Ok(<<"key", v.Op, "?">>, <<ValArg(v.Value)>>)
    ELSE IF ~ContainsDot(v.Key) /\ v.Key \notin validKeys
    THEN Fail([kind |-> "InvalidField", field |-> v.Key])
    ELSE Ok(<<"json_extract(json,", "?", ")", v.Op, "?">>, <<PathArg(v.Key), ValArg(v.Value)>>)

buildFilter(v, validKeys, keyFieldName) ==
    IF v.Op = OpIn \/ v.Op = OpNotIn
    THEN buildInFilter(v, validKeys, keyFieldName)
    ELSE buildCmpFilter(v, validKeys, keyFieldName)

(***************************************************************************)
(* buildWhereClause and joinPredicates (part_007:147-263), mutually        *)
(* recursive. joinLoop is the for loop of joinPredicates: it stops at the  *)
(* first child whose compilation fails.                                    *)
(***************************************************************************)
RECURSIVE buildWhereClause(_, _, _)
RECURSIVE joinLoop(_, _, _, _, _)

\* a loop that compiles every child and reports the last failure
RECURSIVE joinLoopLastError(_, _, _, _, _)
joinLoopLastError(preds, clauses, allArgs, validKeys, keyFieldName) ==
    IF Len(preds) = 0 THEN Ok(clauses, allArgs)
    ELSE LET r == buildWhereClause(Head(preds), validKeys, keyFieldName)
             rest == joinLoopLastError(Tail(preds), Append(clauses, r.sql),
                                       allArgs \o r.args, validKeys, keyFieldName)
         IN IF IsErr(rest) THEN Fail(rest.err)
            ELSE IF IsErr(r) THEN Fail(r.err)
            ELSE rest

joinLoop(preds, clauses, allArgs, validKeys, keyFieldName) ==
    IF Len(preds) = 0 THEN Ok(clauses, allArgs)
    ELSE LET r == buildWhereClause(Head(preds), validKeys, keyFieldName) IN
         IF IsErr(r) THEN Fail(r.err)
         ELSE joinLoop(Tail(preds), Append(clauses, r.sql), allArgs \o r.args,
                       validKeys, keyFieldName)

joinPredicates(preds, joiner, validKeys, keyFieldName) ==
    IF Len(preds) = 0 THEN Ok(<<>>, <<>>)
    ELSE LET l == joinLoop(preds, <<>>, <<>>, validKeys, keyFieldName) IN
         IF IsErr(l) THEN Fail(l.err)
         ELSE Ok(<<"(">> \o Join(l.sql, <<")", joiner, "(">>) \o <<")">>, l.args)

buildWhereClause(p, validKeys, keyFieldName) ==
    IF p.type = "Filter" THEN buildFilter(p, validKeys, keyFieldName)
    ELSE IF p.type = "And" THEN joinPredicates(p.Predicates, "AND", validKeys, keyFieldName)
    ELSE IF p.type = "Or" THEN joinPredicates(p.Predicates, "OR", validKeys, keyFieldName)
    ELSE Fail([kind |-> "UnknownPredicate"])

(***************************************************************************)
(* Query.build (part_007:36-88). orderLoop is the loop over q.OrderBy.     *)
(***************************************************************************)
\* an order loop that takes the key field for a field of the payload
RECURSIVE orderLoopNoKeyColumn(_, _, _, _, _)
orderLoopNoKeyColumn(obs, orderClauses, args, validKeys, keyFieldName) ==
    IF Len(obs) = 0 THEN Ok(orderClauses, args)
    ELSE LET o == Head(obs) IN
         IF o.Direction # OrderAsc /\ o.Direction # OrderDesc
         THEN Fail([kind |-> "InvalidOrderDirection", dir |-> o.Direction])
         ELSE IF ContainsBadChar(o.Key)
         THEN Fail([kind |-> "InvalidOrderChar", field |-> o.Key])
         ELSE IF ~ContainsDot(o.Key) /\ o.Key \notin validKeys
         THEN Fail([kind |-> "InvalidOrderKey", field |-> o.Key])
         ELSE orderLoopNoKeyColumn(Tail(obs),
                        Append(orderClauses, <<"json_extract(json,", "?", ")", o.Direction>>),
                        Append(args, PathArg(o.Key)), validKeys, keyFieldName)

RECURSIVE orderLoop(_, _, _, _, _)
orderLoop(obs, orderClauses, args, validKeys, keyFieldName) ==
    IF Len(obs) = 0 THEN Ok(orderClauses, args)
    ELSE LET o == Head(obs) IN
         IF o.Direction # OrderAsc /\ o.Direction # OrderDesc
         THEN Fail([kind |-> "InvalidOrderDirection", dir |-> o.Direction])
         ELSE IF keyFieldName # "" /\ o.Key = keyFieldName
         THEN orderLoop(Tail(obs), Append(orderClauses, <<"key", o.Direction>>), args,
                        validKeys, keyFieldName)
         ELSE IF ContainsBadChar(o.Key)
         THEN Fail([kind |-> "InvalidOrderChar", field |-> o.Key])
         ELSE IF ~ContainsDot(o.Key) /\ o.Key \notin validKeys
         THEN Fail([kind |-> "InvalidOrderKey", field |-> o.Key])
         ELSE orderLoop(Tail(obs),
                        Append(orderClauses, <<"json_extract(json,", "?", ")", o.Direction>>),
                        Append(args, PathArg(o.Key)), validKeys, keyFieldName)

\* a build that binds the limit before the other arguments
buildLimitFirst(qq, table, validKeys, keyFieldName) ==
    LET base == <<"SELECT key, json FROM", table>>
        w == IF qq.Predicate.type = "nil" THEN Ok(<<>>, <<>>)
             ELSE buildWhereClause(qq.Predicate, validKeys, keyFieldName)
    IN IF IsErr(w) THEN Fail(w.err)
       ELSE LET sql1 == IF w.sql # <<>> THEN base \o <<"WHERE">> \o w.sql ELSE base
                args1 == IF w.sql # <<>> THEN w.args ELSE <<>>
                o == orderLoop(qq.OrderBy, <<>>, args1, validKeys, keyFieldName)
            IN IF IsErr(o) THEN Fail(o.err)
               ELSE LET sql2 == IF Len(qq.OrderBy) > 0
                                THEN sql1 \o <<"ORDER BY">> \o Join(o.sql, <<",">>)
                                ELSE sql1
                    IN IF qq.Limit > 0
                       THEN Ok(sql2 \o <<"LIMIT", "?">>, <<LimitArg(qq.Limit)>> \o o.args)
                       ELSE Ok(sql2, o.args)

build(q, table, validKeys, keyFieldName) ==
    LET base == <<"SELECT key, json FROM", table>>
        w == IF q.Predicate.type = "nil" THEN Ok(<<>>, <<>>)
             ELSE buildWhereClause(q.Predicate, validKeys, keyFieldName)
    IN IF IsErr(w) THEN Fail(w.err)
       ELSE LET sql1 == IF w.sql # <<>> THEN base \o <<"WHERE">> \o w.sql ELSE base
                args1 == IF w.sql # <<>> THEN w.args ELSE <<>>
                o == orderLoop(q.OrderBy, <<>>, args1, validKeys, keyFieldName)
            IN IF IsErr(o) THEN Fail(o.err)
               ELSE LET sql2 == IF Len(q.OrderBy) > 0
                                THEN sql1 \o <<"ORDER BY">> \o Join(o.sql, <<",">>)
                                ELSE sql1
                    IN IF q.Limit > 0
                       THEN Ok(sql2 \o <<"LIMIT", "?">>, Append(o.args, LimitArg(q.Limit)))
                       ELSE Ok(sql2, o.args)

\* the compiler's state: see the compiler's state machine below
VARIABLES q, depth, built, where

buildVars == <<q, depth, built, where>>

(***************************************************************************)
(* The store: one table of (key, json) rows (store.go:329-339) behind a    *)
(* database/sql connection, and at most one open transaction.              *)
(*   db      the committed rows                                            *)
(*   txdb    the rows as the open transaction sees them (its uncommitted   *)
(*           writes applied); equal to db while no transaction is open     *)
(* The engine serialises writers: while a transaction is open, writes on   *)
(* the plain connection do not proceed, so they are not issued here.       *)
(* The calls of a run are made one after the other: no call starts while   *)
(* a sequence returned by Iter is open.  A run makes its writes and its     *)
(* transaction calls before its first read: a read changes nothing that a  *)
(* write or a transaction depends on, so a run that writes after a read    *)
(* reaches no store content that a run without that read does not reach.   *)
(***************************************************************************)
VARIABLES db, txdb, txOpen, txOwner, txSeq, txEnd, dbAtBegin, ops, usedKeys,
          wtPc, wtCtx, wtFnErr, wtCommitCalled, wtRet

txVars == <<db, txdb, txOpen, txOwner, txSeq, txEnd, dbAtBegin, ops, usedKeys,
            wtPc, wtCtx, wtFnErr, wtCommitCalled, wtRet>>

(***************************************************************************)
(* The streaming executor, Store.Iter (store.go:260-327), and its two      *)
(* consumers: a caller's range loop, and Store.GetOne (store.go:214-255).  *)
(*   iterPc   "idle"    no sequence                                        *)
(*            "ready"   Iter has returned seq; the cursor is open          *)
(*            "next"    seq runs: about to call rows.Next()                *)
(*            "yield"   item is about to be handed to the consumer         *)
(*            "exit"    seq returns: the deferred rows.Close() runs        *)
(*            "goret"   GetOne's code after its loop                       *)
(*            "done"    the call is over                                   *)
(*   faulty   whether in this run the engine may fail (rows.Scan,          *)
(*            json.Unmarshal, rows.Err) and the caller may cancel          *)
(***************************************************************************)
VARIABLES iterPc, caller, iterCtx, iterQ, iterRet, rows, pos, cursorOpen, closeCount,
          item, yielded, exitPath, ctxCancelled, cancelledAt,
          goCount, goResult, goIterErr, goRet, faulty

iterVars == <<iterPc, caller, iterCtx, iterQ, iterRet, rows, pos, cursorOpen, closeCount,
              item, yielded, exitPath, ctxCancelled, cancelledAt,
              goCount, goResult, goIterErr, goRet, faulty>>

\* a history of the run: the most recent call when it was a write (no call
\* was made since), with its argument, the entity as the call left it, and
\* the key it wrote under.  A run that starts with Untraced keeps no history.
VARIABLE last

(***************************************************************************)
(* The RecordStore's table (part_001:112-124): its rows                    *)
(* (entity_id, record_type, json) in the order of their id, which          *)
(* AUTOINCREMENT hands out increasing and no statement of the RecordStore  *)
(* deletes, so that the id of a row is its position in records.            *)
(***************************************************************************)
VARIABLE records

recordVars == <<records>>

(***************************************************************************)
(* Concurrent callers of EntityStore.Update (entity_store.go:101-145) on   *)
(* one key, each on a connection of its own, step by step.                 *)
(*   engine   how the database serialises transactions (see below)         *)
(*   stored   the committed row under the key                              *)
(*   version  the number of commits that have replaced that row            *)
(*   update   for every caller, where its call is and what it holds        *)
(***************************************************************************)
VARIABLES engine, stored, version, update

updateVars == <<engine, stored, version, update>>

KeyName(i) == "k" \o ToString(i)
Keys == {KeyName(i) : i \in 1..MaxKeys}
Cats == {"A", "B"}

\* TestPersonWithKey reduced to its key field K (json "k") and Category
Entity(k, c) == [k |-> k, category |-> c, key |-> "", id |-> "", name |-> ""]
\* the entity with its untagged field Key set
WithKeyField(e, v) == [e EXCEPT !.key = v]
ZeroEntity == Entity("", "")
Absent == [present |-> FALSE, json |-> ZeroEntity]
Row(e) == [present |-> TRUE, json |-> e]

\* context.Context: the value under txContextKey (0: none)
NoTx == 0
Background == [tx |-> NoTx]
\* InjectTx (tx.go:20-22) and GetTx (tx.go:13-16)
InjectTx(ctx, tx) == [ctx EXCEPT !.tx = tx]
GetTx(ctx) == [tx |-> ctx.tx, ok |-> ctx.tx # NoTx]

\* a record of a call
Call(op, key, arg, out) ==
    [op |-> op, key |-> key, arg |-> arg, out |-> out, tx |-> NoTx]
\* the call was made on ctx
OnCtx(c, ctx) == [c EXCEPT !.tx = ctx.tx]
NoCall == Call("none", "", ZeroEntity, ZeroEntity)
Untraced == Call("untraced", "", ZeroEntity, ZeroEntity)
Record(c) == IF last.op = "untraced" THEN last ELSE c

\* a Save that always runs on the plain connection
SaveOnDb(ctx) == "db"

\* the statement Save runs on: tx.StmtContext(ctx, stmt) under a transaction
\* (store.go:159-162), and the same for Delete (store.go:199-202)
SaveConn(ctx) == IF GetTx(ctx).ok THEN "tx" ELSE "db"
DeleteConn(ctx) == IF GetTx(ctx).ok THEN "tx" ELSE "db"

\* an INSERT that leaves an existing row as it is
InsertOrIgnore(table, key, json) ==
    IF table[key].present THEN table ELSE [table EXCEPT ![key] = Row(json)]

\* INSERT ... ON CONFLICT(key) DO UPDATE SET json = excluded.json (store.go:386-391)
Upsert(table, key, json) == [table EXCEPT ![key] = Row(json)]
\* the contexts a caller holds: the plain one and, while a transaction is
\* open, the one carrying it
TxCtx == InjectTx(Background, txSeq)
WriteCtxs == IF txOpen THEN {TxCtx} ELSE {Background}
ReadCtxs == IF txOpen THEN {Background, TxCtx} ELSE {Background}

\* the effect of a statement run on conn
Exec(conn, newTable) ==
    IF conn = "tx"
    THEN txdb' = newTable /\ db' = db
    ELSE db' = newTable /\ txdb' = newTable

\* the limit GetOne puts in its query (store.go:218)
GetOneLimit == 2

\* an item of the sequence: (entity, nil) or (zero, err); cause is "ctx" when
\* err is or wraps the context's error
EntityItem(e) == [err |-> "nil", entity |-> e, cause |-> "none"]
ErrItem(kind) ==
    [err |-> kind, entity |-> ZeroEntity, cause |-> IF kind = "cancelled" THEN "ctx" ELSE "none"]
\* rows.Err() gives the context's error, wrapped (store.go:321-323)
RowsCtxErrItem == [err |-> "rows", entity |-> ZeroEntity, cause |-> "ctx"]
NoItem == ErrItem("none")
NoRet == [kind |-> "none", entity |-> ZeroEntity]

\* a query that always goes to the plain connection
IterOnDb(ctx) == "db"

\* the connection Iter queries on: tx.QueryContext under a transaction, else
\* s.db.QueryContext (store.go:274-278)
IterConn(ctx) == IF GetTx(ctx).ok THEN "tx" ELSE "db"

(***************************************************************************)
(* The engine's evaluation of the compiled query.  The WHERE clause is     *)
(* evaluated on the predicate it was compiled from: a filter on the key    *)
(* field compares the key column, any other filter json_extract(json,      *)
(* '$.field') (NULL, hence no match, when the payload has no such field);  *)
(* IN and NOT IN of an empty list were compiled to 1 = 0 and 1 = 1;        *)
(* a combinator without children puts no condition.                        *)
(* Rows come in key order; LIMIT is read from the compiled text and args.  *)
(***************************************************************************)
\* the strings of the model in the order of the engine's text comparison
\* (byte by byte)
StringOrder == <<"", "A", "B">> \o [i \in 1..MaxKeys |-> KeyName(i)] \o <<"x", "y">>
Rank(x) == CHOOSE i \in 1..Len(StringOrder) : StringOrder[i] = x

\* col <op> value as the engine evaluates it on a column that is not NULL
Compare(col, op, value) ==
    LET vals == {value.elems[i] : i \in 1..Len(value.elems)}
        v == value.elems[1]
    IN CASE op = OpEq -> col = v
         [] op = OpNEq -> col # v
         [] op = OpGT -> Rank(col) > Rank(v)
         [] op = OpGTE -> Rank(col) >= Rank(v)
         [] op = OpLT -> Rank(col) < Rank(v)
         [] op = OpLTE -> Rank(col) <= Rank(v)
         [] op = OpIn -> col \in vals
         [] op = OpNotIn -> col \notin vals
         [] OTHER -> FALSE

RECURSIVE Matches(_, _, _)
Matches(key, json, p) ==
    IF p.type = "Filter"
    THEN LET isKey == keyFieldJSONName # "" /\ p.Key = keyFieldJSONName
             has == isKey \/ p.Key \in DOMAIN json
             col == IF isKey THEN key ELSE json[p.Key]
         IN IF p.Op \in {OpIn, OpNotIn} /\ Len(p.Value.elems) = 0
            THEN p.Op = OpNotIn
            ELSE has /\ Compare(col, p.Op, p.Value)
    ELSE IF p.type = "And"
    THEN \A i \in 1..Len(p.Predicates) : Matches(key, json, p.Predicates[i])
    ELSE IF p.type = "Or"
    THEN Len(p.Predicates) = 0
            \/ \E i \in 1..Len(p.Predicates) : Matches(key, json, p.Predicates[i])
    ELSE TRUE

HasToken(t, tok) == \E i \in 1..Len(t) : t[i] = tok

\* the rows of table that the query selects, in key order, before LIMIT
RECURSIVE SelectFrom(_, _, _, _)
SelectFrom(i, table, compiled, p) ==
    IF i > MaxKeys THEN <<>>
    ELSE LET key == KeyName(i)
             hit == /\ table[key].present
                    /\ (HasToken(compiled.sql, "WHERE") => Matches(key, table[key].json, p))
         IN (IF hit THEN <<[key |-> key, json |-> table[key].json]>> ELSE <<>>)
            \o SelectFrom(i + 1, table, compiled, p)

\* LIMIT ? bound to the last argument
LimitOf(compiled) ==
    IF HasToken(compiled.sql, "LIMIT") THEN compiled.args[Len(compiled.args)].limit ELSE -1

QueryRows(table, compiled, p) ==
    LET all == SelectFrom(1, table, compiled, p)
        n == LimitOf(compiled)
    IN IF n >= 0 /\ n < Len(all) THEN SubSeq(all, 1, n) ELSE all

\* the engine rejects text holding "()": a syntax error
SyntaxError(sql) == \E i \in 1..(Len(sql) - 1) : sql[i] = "(" /\ sql[i + 1] = ")"

\* the predicates the callers query with
ReadPredicates ==
    {NilPredicate, Filter("bogus", OpEq, Scalar("A")), And(<<Or(<<>>)>>),
     Filter("k", OpEq, Scalar(KeyName(1))), Filter("category", OpEq, Scalar("A"))}

IterActive == iterPc \notin {"idle", "done"}
\* the run has not called Iter or GetOne yet
NoReadYet == iterPc = "idle"

\* an Iter that queries whatever build returned
IssuesAlways(c) == TRUE

\* Iter goes on to QueryContext only when build returned no error
\* (store.go:266-269)
IssuesQuery(c) == ~IsErr(c)

\* an Iter that leaves the query to the first run of the sequence
OpensOnFirstUse(failed) == FALSE

\* whether Iter returns holding an open cursor: s.db.QueryContext or
\* tx.QueryContext is called in Iter itself, before seq is built
\* (store.go:271-284)
OpensCursor(failed) == failed = "nil"

\* Store.Iter up to its return (store.go:260-283, 326), called by who with
\* query qq on context ctx
IterCall(who, ctx, qq) ==
    LET c == build(qq, tableName, validJSONKeys, keyFieldJSONName)
        failed == IF ~IssuesQuery(c) THEN "builderr"
                  ELSE IF SyntaxError(c.sql) THEN "queryerr" ELSE "nil"
    IN /\ ~IterActive
       /\ caller' = who
       /\ iterCtx' = ctx
       /\ iterQ' = qq
       /\ iterRet' = failed
       /\ rows' = IF failed = "nil"
                  THEN QueryRows(IF IterConn(ctx) = "tx" THEN txdb ELSE db, c, qq.Predicate)
                  ELSE <<>>
       /\ cursorOpen' = OpensCursor(failed)
       /\ iterPc' = IF failed = "nil" THEN "ready" ELSE "done"
       /\ goRet' = IF who = "getone" /\ failed # "nil"
                   THEN [kind |-> failed, entity |-> ZeroEntity] ELSE NoRet
       /\ pos' = 0 /\ closeCount' = 0 /\ item' = NoItem
       /\ yielded' = <<>> /\ exitPath' = "none"
       /\ ctxCancelled' = FALSE /\ cancelledAt' = 0
       /\ goCount' = 0 /\ goResult' = ZeroEntity /\ goIterErr' = "nil"
       /\ last' = Record(NoCall)
       /\ UNCHANGED faulty

\* a caller calls s.Iter(ctx, q) and keeps the sequence
Iter ==
    /\ \E ctx \in ReadCtxs, p \in ReadPredicates :
         IterCall("iter", ctx, [Predicate |-> p, OrderBy |-> <<>>, Limit |-> 0])
    /\ UNCHANGED txVars
    /\ UNCHANGED <<buildVars, recordVars, updateVars>>

\* a caller calls s.GetOne(ctx, p): q := &Query{Predicate: p, Limit: 2}
\* (store.go:214-222)
GetOne ==
    /\ \E ctx \in ReadCtxs, p \in ReadPredicates :
         IterCall("getone", ctx, [Predicate |-> p, OrderBy |-> <<>>, Limit |-> GetOneLimit])
    /\ UNCHANGED txVars
    /\ UNCHANGED <<buildVars, recordVars, updateVars>>

\* the consumer starts ranging over seq (store.go:228, 284-289)
RunSeq ==
    /\ iterPc = "ready"
    /\ iterPc' = "next"
    /\ UNCHANGED <<caller, iterCtx, iterQ, iterRet, rows, pos, cursorOpen, closeCount,
                   item, yielded, exitPath, ctxCancelled, cancelledAt,
                   goCount, goResult, goIterErr, goRet, faulty>>
    /\ UNCHANGED txVars
    /\ UNCHANGED <<buildVars, recordVars, updateVars>>
    /\ UNCHANGED last

\* a loop body that leaves the key field as the payload has it
BodyItemsAsStored(row, cancelled, mayFail) ==
    IF cancelled THEN {ErrItem("cancelled")}
    ELSE {EntityItem(row.json)}
             \cup (IF mayFail THEN {ErrItem("scan"), ErrItem("decode")} ELSE {})

\* what the loop body makes of the row just fetched (store.go:291-314):
\* the cancellation error if ctx.Err() is set, else a scan or decode error,
\* else the decoded entity with its key field set from the key column
BodyItems(row, cancelled, mayFail) ==
    IF cancelled THEN {ErrItem("cancelled")}
    ELSE {EntityItem([row.json EXCEPT !.k = row.key])}
             \cup (IF mayFail THEN {ErrItem("scan"), ErrItem("decode")} ELSE {})

\* one pass of seq from rows.Next() to the next yield or to the end of the
\* loop (store.go:290-323).  rows.Next() gives a row, or the end of the
\* result set, or fails, which rows.Err() reports after the loop.  Once the
\* context is cancelled database/sql closes the cursor on its own schedule:
\* rows.Next() may then already give false and rows.Err() the context's
\* error, or still give what the result set holds.
Fetch ==
    /\ iterPc = "next"
    /\ \/ /\ pos < Len(rows)
          /\ pos' = pos + 1
          /\ item' \in BodyItems(rows[pos + 1], ctxCancelled, faulty)
          /\ iterPc' = "yield"
          /\ UNCHANGED exitPath
       \/ /\ pos = Len(rows)
          /\ iterPc' = "exit"
          /\ exitPath' = "exhausted"
          /\ UNCHANGED <<pos, item>>
       \/ /\ faulty
          /\ item' = ErrItem("rows")
          /\ iterPc' = "yield"
          /\ UNCHANGED <<pos, exitPath>>
       \/ /\ ctxCancelled
          /\ item' = RowsCtxErrItem
          /\ iterPc' = "yield"
          /\ UNCHANGED <<pos, exitPath>>
    /\ UNCHANGED <<caller, iterCtx, iterQ, iterRet, rows, cursorOpen, closeCount,
                   yielded, ctxCancelled, cancelledAt,
                   goCount, goResult, goIterErr, goRet, faulty>>
    /\ UNCHANGED txVars
    /\ UNCHANGED <<buildVars, recordVars, updateVars>>
    /\ UNCHANGED last

\* a loop that goes on after the second item
GetOneNeverStops(count) == FALSE

\* GetOne's loop stops once it has counted a second item (store.go:236-239)
GetOneStops(count) == count > 1

\* a GetOne that looks at its count before the error
GetOneResultCountFirst(count, result, iterErr) ==
    IF count = 0 THEN [kind |-> "notfound", entity |-> ZeroEntity]
    ELSE IF count > 1 THEN [kind |-> "multiple", entity |-> ZeroEntity]
    ELSE IF iterErr # "nil" THEN [kind |-> "iterfailed", entity |-> ZeroEntity]
    ELSE [kind |-> "ok", entity |-> result]

\* GetOne's code after its loop (store.go:242-254)
GetOneResult(count, result, iterErr) ==
    IF iterErr # "nil" THEN [kind |-> "iterfailed", entity |-> ZeroEntity]
    ELSE IF count = 0 THEN [kind |-> "notfound", entity |-> ZeroEntity]
    ELSE IF count > 1 THEN [kind |-> "multiple", entity |-> ZeroEntity]
    ELSE [kind |-> "ok", entity |-> result]

\* a Close that is skipped when the consumer breaks
ClosesUnlessBreak(path) == path # "break"

\* the deferred rows.Close() runs on every way out of seq (store.go:285-287)
ClosesOnExit(path) == TRUE

\* a sequence that goes on after the error of a row and returns only after
\* the error of rows.Err()
ReturnsAfterRowsErr(it) == it.err = "rows"

\* whether seq returns after yielding it whatever yield answered: every
\* error item is followed by return or by the end of seq
\* (store.go:292-294, 297-299, 303-305, 321-323)
ReturnsAfter(it) == it.err # "nil"

\* yield(...) into a caller's range loop: after an error item seq returns;
\* after an entity the loop body either continues or breaks (store.go:316-318)
YieldToLoop ==
    /\ iterPc = "yield" /\ caller = "iter"
    /\ yielded' = Append(yielded, item)
    /\ IF ReturnsAfter(item)
       THEN iterPc' = "exit" /\ exitPath' = item.err
       ELSE \/ iterPc' = "next" /\ exitPath' = exitPath
            \/ iterPc' = "exit" /\ exitPath' = "break"
    /\ UNCHANGED <<caller, iterCtx, iterQ, iterRet, rows, pos, cursorOpen, closeCount,
                   item, ctxCancelled, cancelledAt,
                   goCount, goResult, goIterErr, goRet, faulty>>
    /\ UNCHANGED txVars
    /\ UNCHANGED <<buildVars, recordVars, updateVars>>
    /\ UNCHANGED last

\* yield(...) into the body of GetOne's loop (store.go:228-240)
YieldToGetOne ==
    /\ iterPc = "yield" /\ caller = "getone"
    /\ yielded' = Append(yielded, item)
    /\ IF item.err # "nil"
       THEN /\ goIterErr' = item.err
            /\ iterPc' = "exit" /\ exitPath' = item.err
            /\ UNCHANGED <<goCount, goResult>>
       ELSE /\ goResult' = IF goCount = 0 THEN item.entity ELSE goResult
            /\ goCount' = goCount + 1
            /\ IF GetOneStops(goCount + 1)
               THEN iterPc' = "exit" /\ exitPath' = "break"
               ELSE iterPc' = "next" /\ exitPath' = exitPath
            /\ UNCHANGED goIterErr
    /\ UNCHANGED <<caller, iterCtx, iterQ, iterRet, rows, pos, cursorOpen, closeCount,
                   item, ctxCancelled, cancelledAt, goRet, faulty>>
    /\ UNCHANGED txVars
    /\ UNCHANGED <<buildVars, recordVars, updateVars>>
    /\ UNCHANGED last

\* seq returns and its deferred function closes the cursor (store.go:285-287)
SeqReturn ==
    /\ iterPc = "exit"
    /\ IF ClosesOnExit(exitPath)
       THEN closeCount' = closeCount + 1 /\ cursorOpen' = FALSE
       ELSE UNCHANGED <<closeCount, cursorOpen>>
    /\ iterPc' = IF caller = "getone" THEN "goret" ELSE "done"
    /\ UNCHANGED <<caller, iterCtx, iterQ, iterRet, rows, pos,
                   item, yielded, exitPath, ctxCancelled, cancelledAt,
                   goCount, goResult, goIterErr, goRet, faulty>>
    /\ UNCHANGED txVars
    /\ UNCHANGED <<buildVars, recordVars, updateVars>>
    /\ UNCHANGED last

\* GetOne returns (store.go:242-254)
GetOneReturn ==
    /\ iterPc = "goret"
    /\ goRet' = GetOneResult(goCount, goResult, goIterErr)
    /\ iterPc' = "done"
    /\ UNCHANGED <<caller, iterCtx, iterQ, iterRet, rows, pos, cursorOpen, closeCount,
                   item, yielded, exitPath, ctxCancelled, cancelledAt,
                   goCount, goResult, goIterErr, faulty>>
    /\ UNCHANGED txVars
    /\ UNCHANGED <<buildVars, recordVars, updateVars>>
    /\ UNCHANGED last

\* the number of entities among the items ys
RECURSIVE EntityCount(_)
EntityCount(ys) ==
    IF Len(ys) = 0 THEN 0
    ELSE (IF Head(ys).err = "nil" THEN 1 ELSE 0) + EntityCount(Tail(ys))

\* the caller cancels the context while the sequence is being consumed
Cancel ==
    /\ faulty
    /\ iterPc \in {"ready", "next", "yield"}
    /\ ~ctxCancelled
    /\ ctxCancelled' = TRUE
    /\ cancelledAt' = EntityCount(yielded)
    /\ UNCHANGED <<iterPc, caller, iterCtx, iterQ, iterRet, rows, pos, cursorOpen, closeCount,
                   item, yielded, exitPath,
                   goCount, goResult, goIterErr, goRet, faulty>>
    /\ UNCHANGED txVars
    /\ UNCHANGED <<buildVars, recordVars, updateVars>>
    /\ UNCHANGED last

\* a Save that takes the key from the entity whenever it holds one
SaveKeyFromEntity(hasKeyField, entity, fresh) ==
    IF entity.k = "" THEN fresh ELSE entity.k

\* the key Save stores under (store.go:164-182): the key field's value, or a
\* fresh UUID when that is empty or when the type has no key field
SaveKey(hasKeyField, entity, fresh) ==
    IF hasKeyField
    THEN IF entity.k = "" THEN fresh ELSE entity.k
    ELSE fresh

\* a Save that serialises the entity without the key it generated
SavedEntityAsPassed(hasKeyField, entity, key) == entity

\* the entity as Save leaves it (store.go:166-178): the generated key is
\* written into the key field, if the type has one
SavedEntity(hasKeyField, entity, key) ==
    IF hasKeyField /\ entity.k = "" THEN [entity EXCEPT !.k = key] ELSE entity

\* Store.Save (store.go:158-195) of entity on ctx, by a store whose type
\* has a key field or not; fresh is what uuid.NewString() returns
SaveAs(hasKeyField, ctx, entity, fresh) ==
    LET key == SaveKey(hasKeyField, entity, fresh)
        out == SavedEntity(hasKeyField, entity, key)
    IN /\ Exec(SaveConn(ctx),
               Upsert(IF SaveConn(ctx) = "tx" THEN txdb ELSE db, key, out))
       /\ usedKeys' = usedKeys \cup {key}
       /\ last' = Record(Call(IF hasKeyField THEN "Save" ELSE "SaveNoKey", key, entity, out))

\* Store.Save (store.go:158-195) by the store of the keyed type: an empty
\* key field gets a fresh UUID
Save ==
    /\ NoReadYet /\ ops < MaxOps
    /\ \E ctx \in WriteCtxs, k \in Keys \cup {""}, c \in Cats :
         \E fresh \in IF k = "" THEN Keys \ usedKeys ELSE {k} :
             SaveAs(TRUE, ctx, Entity(k, c), fresh)
    /\ ops' = ops + 1
    /\ UNCHANGED <<txOpen, txOwner, txSeq, txEnd, dbAtBegin,
                   wtPc, wtCtx, wtFnErr, wtCommitCalled, wtRet>>
    /\ UNCHANGED iterVars
    /\ UNCHANGED <<buildVars, recordVars, updateVars>>

\* Store.Save (store.go:158-195) by a store on the same table whose type has
\* no key field (store_without_key_test.go:131-166); the payload's "k" is an
\* ordinary field of that type, naming the first key, or missing from it ("")
SaveNoKey ==
    /\ NoReadYet /\ ops < MaxOps
    /\ \E ctx \in WriteCtxs, k \in {KeyName(1), ""}, c \in Cats :
         \E fresh \in Keys \ usedKeys :
             SaveAs(FALSE, ctx, Entity(k, c), fresh)
    /\ ops' = ops + 1
    /\ UNCHANGED <<txOpen, txOwner, txSeq, txEnd, dbAtBegin,
                   wtPc, wtCtx, wtFnErr, wtCommitCalled, wtRet>>
    /\ UNCHANGED iterVars
    /\ UNCHANGED <<buildVars, recordVars, updateVars>>

\* a DELETE without its WHERE clause
DeleteEveryRow(table, key) == [k \in DOMAIN table |-> Absent]

\* DELETE FROM t WHERE key = ? (store.go:397)
DeleteRow(table, key) == [table EXCEPT ![key] = Absent]

\* Store.Delete (store.go:198-210)
Delete ==
    /\ NoReadYet /\ ops < MaxOps
    /\ \E ctx \in WriteCtxs, key \in Keys :
         /\ Exec(DeleteConn(ctx),
                 DeleteRow(IF DeleteConn(ctx) = "tx" THEN txdb ELSE db, key))
         /\ last' = Record(Call("Delete", key, ZeroEntity, ZeroEntity))
    /\ ops' = ops + 1
    /\ UNCHANGED <<txOpen, txOwner, txSeq, txEnd, dbAtBegin, usedKeys,
                   wtPc, wtCtx, wtFnErr, wtCommitCalled, wtRet>>
    /\ UNCHANGED iterVars
    /\ UNCHANGED <<buildVars, recordVars, updateVars>>

(***************************************************************************)
(* Transactions: a caller's own db.BeginTx / InjectTx / Commit / Rollback  *)
(* (store_tx_test.go:30-62), and WithTransaction (tx.go:27-51).            *)
(***************************************************************************)
Begin ==
    /\ NoReadYet /\ ops < MaxOps
    /\ ~txOpen
    /\ txOpen' = TRUE /\ txOwner' = "caller" /\ txSeq' = txSeq + 1
    /\ txEnd' = "none" /\ dbAtBegin' = db
    /\ ops' = ops + 1
    /\ UNCHANGED <<db, txdb, usedKeys, wtPc, wtCtx, wtFnErr, wtCommitCalled, wtRet>>
    /\ UNCHANGED iterVars
    /\ UNCHANGED <<buildVars, recordVars, updateVars>>
    /\ last' = Record(NoCall)

Commit ==
    /\ NoReadYet
    /\ txOpen /\ txOwner = "caller"
    /\ db' = txdb
    /\ txOpen' = FALSE /\ txOwner' = "none" /\ txEnd' = "commit"
    /\ UNCHANGED <<txdb, txSeq, dbAtBegin, ops, usedKeys,
                   wtPc, wtCtx, wtFnErr, wtCommitCalled, wtRet>>
    /\ UNCHANGED iterVars
    /\ UNCHANGED <<buildVars, recordVars, updateVars>>
    /\ last' = Record(NoCall)

Rollback ==
    /\ NoReadYet
    /\ txOpen /\ txOwner = "caller"
    /\ txdb' = db
    /\ txOpen' = FALSE /\ txOwner' = "none" /\ txEnd' = "rollback"
    /\ UNCHANGED <<db, txSeq, dbAtBegin, ops, usedKeys,
                   wtPc, wtCtx, wtFnErr, wtCommitCalled, wtRet>>
    /\ UNCHANGED iterVars
    /\ UNCHANGED <<buildVars, recordVars, updateVars>>
    /\ last' = Record(NoCall)

\* WithTransaction up to the call of fn (tx.go:27-40): db.BeginTx may fail
WithTransactionBegin ==
    /\ NoReadYet /\ ops < MaxOps
    /\ ~txOpen /\ wtPc \in {"idle", "done"}
    /\ \/ /\ txOpen' = TRUE /\ txOwner' = "WithTransaction" /\ txSeq' = txSeq + 1
          /\ txEnd' = "none" /\ dbAtBegin' = db
          /\ wtCtx' = InjectTx(Background, txSeq + 1)
          /\ wtPc' = "fn" /\ wtRet' = "none"
       \/ /\ wtPc' = "done" /\ wtRet' = "beginfailed"
          /\ wtCtx' = Background
          /\ UNCHANGED <<txOpen, txOwner, txSeq, txEnd, dbAtBegin>>
    /\ wtFnErr' = "none" /\ wtCommitCalled' = FALSE
    /\ ops' = ops + 1
    /\ UNCHANGED <<db, txdb, usedKeys>>
    /\ UNCHANGED iterVars
    /\ UNCHANGED <<buildVars, recordVars, updateVars>>
    /\ last' = Record(NoCall)

\* a WithTransaction that commits whatever fn returned
CommitsAlways(err) == TRUE

\* whether WithTransaction calls tx.Commit() after fn returned err (tx.go:40-46)
CommitsAfter(err) == err = "nil"

\* fn returns err; WithTransaction commits or lets the deferred Rollback run,
\* and returns (tx.go:34, 40-50).  tx.Commit() may fail.
WithTransactionEnd ==
    /\ NoReadYet
    /\ wtPc = "fn"
    /\ \E err \in {"nil", "fnErr"}, commitOk \in BOOLEAN :
         /\ wtFnErr' = err
         /\ wtCommitCalled' = CommitsAfter(err)
         /\ IF CommitsAfter(err) /\ commitOk
            THEN db' = txdb /\ txdb' = txdb /\ txEnd' = "commit"
            ELSE db' = db /\ txdb' = db /\ txEnd' = "rollback"
         /\ wtRet' = IF ~CommitsAfter(err) THEN err
                     ELSE IF commitOk THEN "nil" ELSE "commitfailed"
    /\ txOpen' = FALSE /\ txOwner' = "none" /\ wtPc' = "done"
    /\ UNCHANGED <<txSeq, dbAtBegin, ops, usedKeys, wtCtx>>
    /\ UNCHANGED iterVars
    /\ UNCHANGED <<buildVars, recordVars, updateVars>>
    /\ last' = Record(NoCall)

(***************************************************************************)
(* EntityStore[*FakeUser] (entity_store.go:16-145) on a table of its own,  *)
(* kept in the same variables: db is what the plain connections see.  A    *)
(* stored payload is a JSON object, a function from field names to values; *)
(* numbers are written as their decimal text.                              *)
(***************************************************************************)
\* FakeUser reduced to Username and Age (entity_store_test.go:14-19)
FakeUser(username, age) == [username |-> username, age |-> age]
ZeroUser == FakeUser("", "0")
\* an integer above 2^53 that is not a float64, and the float64 nearest to it
BigInt == "9007199254740993"
BigIntAsFloat == "9007199254740992"
Users == {FakeUser(u, a) : u \in {"foo", "bar"}, a \in {"40", BigInt}}
EKeys == {KeyName(1), KeyName(2)}

\* the JSON object without fields
EmptyObject == <<>>
\* the maps a caller passes to Update
Partials ==
    {EmptyObject, [username |-> "baz"], [age |-> "41"], [username |-> "baz", age |-> "41"]}

\* json.Marshal of a *FakeUser: every field of the struct
Marshal(u) == u
\* json.Unmarshal of an object into a new FakeUser: a missing field keeps its
\* zero value
Unmarshal(obj) ==
    [f \in DOMAIN ZeroUser |-> IF f \in DOMAIN obj THEN obj[f] ELSE ZeroUser[f]]

\* json.Unmarshal of a value into an `any`, and json.Marshal of the result:
\* a number becomes a float64 (entity_store.go:128, 135)
ThroughAny(v) == IF v = BigInt THEN BigIntAsFloat ELSE v
\* the same for an object read into a map[string]any
ThroughMap(obj) == [f \in DOMAIN obj |-> ThroughAny(obj[f])]

\* what Get returns: the zero value of T, or the decoded record
ZeroResult == [zero |-> TRUE, value |-> ZeroUser]
Found(u) == [zero |-> FALSE, value |-> u]

\* a Get that finds nothing
GetNothing(table, key) == ZeroResult

\* SELECT json FROM t WHERE key = ? and the decoding (entity_store.go:66-83)
GetResult(table, key) ==
    IF table[key].present THEN Found(Unmarshal(table[key].json)) ELSE ZeroResult

\* the connection the prepared statements of the EntityStore run on:
\* e.getStmt and e.setStmt are used as prepared on e.db, and Update begins a
\* transaction of its own on e.db; ctx is handed to the driver only
\* (entity_store.go:69, 92, 106)
EntityConn(ctx) == "db"

\* currentData after the loop over partial (entity_store.go:123-134)
Merge(current, partial) ==
    [f \in DOMAIN current \cup DOMAIN partial |->
        IF f \in DOMAIN partial THEN partial[f] ELSE current[f]]

\* the contexts a caller of the EntityStore holds
EntityCtxs == IF txOpen THEN {Background, TxCtx} ELSE {Background}

\* EntityStore.Get (entity_store.go:66-83)
EntityStoreGet ==
    /\ \E ctx \in EntityCtxs, key \in EKeys :
          last' = Record(OnCtx(Call("Get", key, ZeroUser,
                                    GetResult(IF EntityConn(ctx) = "tx" THEN txdb ELSE db, key)),
                               ctx))
    /\ UNCHANGED txVars
    /\ UNCHANGED iterVars
    /\ UNCHANGED <<buildVars, recordVars, updateVars>>

\* EntityStore.Set (entity_store.go:86-98)
EntityStoreSet ==
    /\ ops < MaxOps
    /\ \E ctx \in EntityCtxs, key \in EKeys, u \in Users :
          /\ Exec(EntityConn(ctx),
                  Upsert(IF EntityConn(ctx) = "tx" THEN txdb ELSE db, key, Marshal(u)))
          /\ last' = Record(OnCtx(Call("Set", key, u, ZeroUser), ctx))
    /\ ops' = ops + 1
    /\ UNCHANGED <<txOpen, txOwner, txSeq, txEnd, dbAtBegin, usedKeys,
                   wtPc, wtCtx, wtFnErr, wtCommitCalled, wtRet>>
    /\ UNCHANGED iterVars
    /\ UNCHANGED <<buildVars, recordVars, updateVars>>

\* EntityStore.Update (entity_store.go:101-145): nothing for an empty map;
\* else, in a transaction of its own, the stored object is read into a map,
\* the fields of partial are put over it and the result is stored
EntityStoreUpdate ==
    /\ ops < MaxOps
    /\ \E ctx \in EntityCtxs, key \in EKeys, partial \in Partials :
          LET table == IF EntityConn(ctx) = "tx" THEN txdb ELSE db
              currentData == IF table[key].present THEN ThroughMap(table[key].json)
                             ELSE EmptyObject
          IN /\ IF DOMAIN partial = {}
                THEN UNCHANGED <<db, txdb>>
                ELSE Exec(EntityConn(ctx), Upsert(table, key, Merge(currentData, partial)))
             /\ last' = Record(OnCtx(Call("Update", key, partial, ZeroUser), ctx))
    /\ ops' = ops + 1
    /\ UNCHANGED <<txOpen, txOwner, txSeq, txEnd, dbAtBegin, usedKeys,
                   wtPc, wtCtx, wtFnErr, wtCommitCalled, wtRet>>
    /\ UNCHANGED iterVars
    /\ UNCHANGED <<buildVars, recordVars, updateVars>>

(***************************************************************************)
(* RecordStore[T] (part_001:12-148): two stores on one table, one with     *)
(* record type "chat" and one with record type "log" (part_008:27-38).     *)
(* An item is a ChatMsg reduced to its Content; its JSON is an object.     *)
(***************************************************************************)
RecordTypes == {"chat", "log"}
EntityIDs == {"u1", "u2"}
Contents == {"Hello", "spam"}
\* the Add calls of a run, counted in ops
MaxRecords == MaxOps + 1
\* the limits a caller passes to List: an int, negative ones included
ListLimits == (0 - 1) .. (MaxRecords + 1)

ChatMsg(content) == [content |-> content]
\* json.Marshal of an item (part_001:67)
MarshalItem(msg) == [content |-> msg.content]
\* json.Unmarshal of a payload into a new T (part_001:99-102)
UnmarshalItem(obj) == ChatMsg(IF "content" \in DOMAIN obj THEN obj.content ELSE "")

RecordRow(entityID, recordType, json) ==
    [entity_id |-> entityID, record_type |-> recordType, json |-> json]

\* a call of the RecordStore with record type recordType, and what it returned
RecordCall(op, recordType, entityID, arg, out) ==
    [op |-> op, recordType |-> recordType, entityID |-> entityID, arg |-> arg, out |-> out]

\* SELECT json FROM t WHERE entity_id = ? AND record_type = ?
\* ORDER BY id DESC LIMIT ?   (part_001:138-143); to the engine a negative
\* LIMIT is no limit
ListRows(table, entityID, recordType, limit) ==
    LET matching == SelectSeq(table, LAMBDA r : r.entity_id = entityID
                                                /\ r.record_type = recordType)
        ordered == [i \in 1..Len(matching) |-> matching[Len(matching) + 1 - i]]
        n == IF limit < 0 \/ limit > Len(ordered) THEN Len(ordered) ELSE limit
    IN SubSeq(ordered, 1, n)

\* RecordStore.Add (part_001:66-77): INSERT INTO t (entity_id, record_type,
\* json) VALUES (?, ?, ?) on the store's connection (part_001:128-133)
RecordStoreAdd ==
    /\ ops < MaxRecords
    /\ \E recordType \in RecordTypes, entityID \in EntityIDs, c \in Contents :
          /\ records' = Append(records,
                               RecordRow(entityID, recordType, MarshalItem(ChatMsg(c))))
          /\ last' = RecordCall("Add", recordType, entityID, ChatMsg(c), <<>>)
    /\ ops' = ops + 1
    /\ UNCHANGED <<db, txdb, txOpen, txOwner, txSeq, txEnd, dbAtBegin, usedKeys,
                   wtPc, wtCtx, wtFnErr, wtCommitCalled, wtRet>>
    /\ UNCHANGED <<buildVars, iterVars, updateVars>>

\* RecordStore.List (part_001:80-110): the rows of the query, each decoded,
\* in the order the engine returns them
RecordStoreList ==
    /\ \E recordType \in RecordTypes, entityID \in EntityIDs, limit \in ListLimits :
          LET rs == ListRows(records, entityID, recordType, limit)
          IN last' = RecordCall("List", recordType, entityID, limit,
                                [i \in 1..Len(rs) |-> UnmarshalItem(rs[i].json)])
    /\ UNCHANGED records
    /\ UNCHANGED <<buildVars, txVars, iterVars, updateVars>>

(***************************************************************************)
(* EntityStore.Update step by step (entity_store.go:101-145), for two      *)
(* callers on one key, each in the transaction Update begins on a          *)
(* connection of its own (entity_store.go:106).  The database is SQLite;   *)
(* engine says how it keeps transactions apart in this run:                *)
(*   "journal"  a rollback journal: readers share the file, one            *)
(*              connection may write, and a commit waits for the readers   *)
(*   "wal"      a write-ahead log: a reader keeps the snapshot of its       *)
(*              first read, one connection may write, and a transaction    *)
(*              whose snapshot was replaced cannot write                   *)
(*   "shared"   a shared cache (testutils_test.go): a table is read-locked *)
(*              by its readers and write-locked by its one writer          *)
(* A statement that cannot proceed waits, or gives up with an error.       *)
(*   update[i].pc        "start", "begun", "read", "written", "done"       *)
(*   update[i].lock      what the transaction holds: "none", "read",       *)
(*                       "write"                                           *)
(*   update[i].snapshot  the version its transaction sees                  *)
(*   update[i].current   currentData                                       *)
(*   update[i].readAt    the version currentData was read from             *)
(*   update[i].merged    mergedData                                        *)
(*   update[i].ret       "none", "nil" or "error"                          *)
(***************************************************************************)
Callers == {1, 2}
Engines == {"journal", "wal", "shared"}
\* the maps the two callers pass: disjoint fields
PartialOf(i) == IF i = 1 THEN [username |-> "baz"] ELSE [age |-> "41"]

IdleUpdate ==
    [pc |-> "start", lock |-> "none", snapshot |-> 0, current |-> EmptyObject,
     readAt |-> 0, merged |-> EmptyObject, ret |-> "none"]

\* no caller of Update
NoUpdates ==
    /\ engine = "journal" /\ stored = Absent /\ version = 0
    /\ update = [i \in Callers |-> IdleUpdate]

Others(i) == Callers \ {i}

\* an Update that reads through the statement as prepared on e.db
UpdateSelectOnDb == "db"

\* the connection the select of Update runs on: the statement is rebound to
\* the transaction (entity_store.go:118, 122)
UpdateSelectConn == "tx"

\* whether the engine lets caller i read the row now
SelectAllowed(i) ==
    engine = "shared" => \A j \in Others(i) : update[j].lock # "write"

\* whether the engine lets the transaction of caller i write the row now
UpsertAllowed(i) ==
    /\ \A j \in Others(i) : update[j].lock # "write"
    /\ engine = "shared" => \A j \in Others(i) : update[j].lock = "none"
    /\ update[i].lock = "read" => update[i].snapshot = version

\* whether the engine lets the transaction of caller i commit now
CommitAllowed(i) ==
    engine = "journal" => \A j \in Others(i) : update[j].lock = "none"

\* e.db.BeginTx(ctx, nil)   (entity_store.go:106)
UpdateBeginTx ==
    /\ \E i \in Callers :
          /\ update[i].pc = "start"
          /\ update' = [update EXCEPT ![i].pc = "begun"]
    /\ UNCHANGED <<engine, stored, version>>
    /\ UNCHANGED <<buildVars, txVars, iterVars, recordVars, last>>

\* txUpdateSelectStmt.QueryRowContext(ctx, key).Scan(&jsonData) and the
\* decoding into currentData   (entity_store.go:121-131)
UpdateSelect ==
    /\ \E i \in Callers :
          /\ update[i].pc = "begun"
          /\ SelectAllowed(i)
          /\ update' = [update EXCEPT
                ![i].pc = "read",
                ![i].lock = IF UpdateSelectConn = "tx" THEN "read" ELSE @,
                ![i].snapshot = IF UpdateSelectConn = "tx" THEN version ELSE @,
                ![i].current = IF stored.present THEN ThroughMap(stored.json)
                               ELSE EmptyObject,
                ![i].readAt = version]
    /\ UNCHANGED <<engine, stored, version>>
    /\ UNCHANGED <<buildVars, txVars, iterVars, recordVars, last>>

\* the loop over partial, json.Marshal and txUpdateUpsertStmt.ExecContext
\* (entity_store.go:132-142)
UpdateUpsert ==
    /\ \E i \in Callers :
          /\ update[i].pc = "read"
          /\ UpsertAllowed(i)
          /\ update' = [update EXCEPT
                ![i].pc = "written",
                ![i].lock = "write",
                ![i].snapshot = version,
                ![i].merged = Merge(update[i].current, PartialOf(i))]
    /\ UNCHANGED <<engine, stored, version>>
    /\ UNCHANGED <<buildVars, txVars, iterVars, recordVars, last>>

\* return tx.Commit()   (entity_store.go:144)
UpdateCommit ==
    /\ \E i \in Callers :
          /\ update[i].pc = "written"
          /\ CommitAllowed(i)
          /\ stored' = Row(update[i].merged)
          /\ version' = version + 1
          /\ update' = [update EXCEPT ![i].pc = "done", ![i].lock = "none",
                                      ![i].ret = "nil"]
    /\ UNCHANGED engine
    /\ UNCHANGED <<buildVars, txVars, iterVars, recordVars, last>>

\* a statement of the call fails (the engine gives up waiting, or ctx is
\* cancelled): Update returns the error and its deferred tx.Rollback()
\* releases what the transaction held   (entity_store.go:107-114, 124-126,
\* 140-142, 144)
UpdateReturnsError ==
    /\ \E i \in Callers :
          /\ update[i].pc \in {"start", "begun", "read", "written"}
          /\ update' = [update EXCEPT ![i].pc = "done", ![i].lock = "none",
                                      ![i].ret = "error"]
    /\ UNCHANGED <<engine, stored, version>>
    /\ UNCHANGED <<buildVars, txVars, iterVars, recordVars, last>>

(***************************************************************************)
(* The compiler's state machine: a query descriptor q is chosen, its       *)
(* predicate may be nested inside And/Or combinators, and Query.build is   *)
(* applied to it once.  where is the (text, args, err) triple that         *)
(* buildWhereClause returned for q.Predicate inside build.                 *)
(***************************************************************************)

NotBuilt == [sql |-> <<>>, args |-> <<>>, err |-> [kind |-> "notbuilt"]]
Compiled == built.err.kind # "notbuilt"

Query(p, ob, lim) == [Predicate |-> p, OrderBy |-> ob, Limit |-> lim]
OrderBy(k, d) == [Key |-> k, Direction |-> d]

FieldNames == {"k", "key", "id", "name", "bogus", "a.b"}
CmpFilters == {Filter(f, op, Scalar(KeyName(1))) : f \in FieldNames, op \in {OpEq, OpGT, "INVALID"}}
InValues == {NilSlice, Slice(<<>>), Slice(<<KeyName(1), "y">>), Array(<<>>), Scalar(KeyName(1)), UntypedNil}
InFilters == {Filter(f, op, v) : f \in FieldNames, op \in {OpIn, OpNotIn}, v \in InValues}
Leaves == CmpFilters \cup InFilters \cup {And(<<>>), Or(<<>>)}
Siblings == {Filter("name", OpEq, Scalar(KeyName(1))), And(<<>>)}
OrderBys == {<<>>, <<OrderBy("k", OrderAsc)>>, <<OrderBy("name", OrderDesc)>>,
             <<OrderBy("bogus", OrderAsc)>>, <<OrderBy("name", "BAD")>>,
             <<OrderBy("a;b", OrderAsc)>>, <<OrderBy("k", "BAD")>>,
             <<OrderBy("a.b", OrderAsc), OrderBy("k", OrderDesc)>>}
Limits == {-1, 0, 2}

\* queries of which several parts are invalid
SeveralInvalid ==
    LET v == Scalar(KeyName(1))
        field == Filter("bogus", OpEq, v)
        operator == Filter("name", "INVALID", v)
        list == Filter("name", OpIn, v)
    IN {Query(And(<<field, operator>>), <<OrderBy("name", "BAD")>>, 0),
        Query(Or(<<operator, field>>), <<OrderBy("bogus", OrderAsc)>>, 2),
        Query(And(<<Filter("name", OpEq, v), list, field>>), <<>>, 0),
        Query(NilPredicate, <<OrderBy("name", "BAD"), OrderBy("bogus", OrderAsc)>>, 0),
        Query(NilPredicate, <<OrderBy("bogus", OrderAsc), OrderBy("name", "BAD")>>, 0)}

InitBuild ==
    /\ q \in {Query(p, <<>>, l) : p \in Leaves, l \in {0, 2}}
            \cup SeveralInvalid
            \cup {Query(p, ob, l) : p \in {NilPredicate, Filter("name", OpEq, Scalar(KeyName(1))),
                                          Filter("bogus", OpEq, Scalar(KeyName(1)))},
                                   ob \in OrderBys, l \in Limits}
    /\ depth = 0
    /\ built = NotBuilt
    /\ where = NotBuilt

\* the caller nests the predicate alone inside a combinator
WrapAlone ==
    /\ ~Compiled /\ depth < MaxDepth
    /\ \E j \in {"And", "Or"} :
          q' = [q EXCEPT !.Predicate = [type |-> j, Predicates |-> <<q.Predicate>>]]
    /\ depth' = depth + 1
    /\ UNCHANGED <<built, where>>
    /\ UNCHANGED <<txVars, iterVars, recordVars, updateVars>>
    /\ UNCHANGED last

\* the caller nests the predicate inside a combinator beside a sibling
WrapWith ==
    /\ ~Compiled /\ depth < MaxDepth
    /\ \E j \in {"And", "Or"}, s \in Siblings, left \in BOOLEAN :
          q' = [q EXCEPT !.Predicate =
                  [type |-> j,
                   Predicates |-> IF left THEN <<s, q.Predicate>> ELSE <<q.Predicate, s>>]]
    /\ depth' = depth + 1
    /\ UNCHANGED <<built, where>>
    /\ UNCHANGED <<txVars, iterVars, recordVars, updateVars>>
    /\ UNCHANGED last

\* q.build(s.tableName, s.validJSONKeys, s.keyFieldJSONName)   (store.go:266)
Compile ==
    /\ ~Compiled
    /\ built' = build(q, tableName, validJSONKeys, keyFieldJSONName)
    /\ where' = IF q.Predicate.type = "nil" THEN Ok(<<>>, <<>>)
                ELSE buildWhereClause(q.Predicate, validJSONKeys, keyFieldJSONName)
    /\ UNCHANGED <<q, depth>>
    /\ UNCHANGED <<txVars, iterVars, recordVars, updateVars>>
    /\ UNCHANGED last

\* a caller calls s.Iter(ctx, q) with the query built so far: Iter compiles
\* it (store.go:266) and, if that succeeds, queries (store.go:271-282)
IterQuery ==
    /\ ~Compiled
    /\ built' = build(q, tableName, validJSONKeys, keyFieldJSONName)
    /\ where' = IF q.Predicate.type = "nil" THEN Ok(<<>>, <<>>)
                ELSE buildWhereClause(q.Predicate, validJSONKeys, keyFieldJSONName)
    /\ IterCall("iter", Background, q)
    /\ UNCHANGED <<q, depth>>
    /\ UNCHANGED <<txVars, recordVars, updateVars>>

(***************************************************************************)
(* Initial states and specifications.                                      *)
(***************************************************************************)
vars == <<buildVars, txVars, iterVars, last, recordVars, updateVars>>

\* the tables the runs start from: the first n keys hold a row, the first of
\* category "B" and the others of category "A"; every payload embeds its key
InitialTable(n) ==
    [k \in Keys |->
        IF \E i \in 1..n : k = KeyName(i)
        THEN Row(Entity(k, IF k = KeyName(1) THEN "B" ELSE "A"))
        ELSE Absent]
Tables == {InitialTable(n) : n \in 0..MaxKeys}
EmptyTable == [k \in Keys |-> Absent]

\* the store after NewStore, holding table
StoreInit(table) ==
    /\ db = table /\ txdb = table
    /\ txOpen = FALSE /\ txOwner = "none" /\ txSeq = 0 /\ txEnd = "none"
    /\ dbAtBegin = table /\ ops = 0
    /\ usedKeys = {k \in Keys : table[k].present}
    /\ wtPc = "idle" /\ wtCtx = Background /\ wtFnErr = "none"
    /\ wtCommitCalled = FALSE /\ wtRet = "none"
    /\ iterPc = "idle" /\ caller = "none" /\ iterCtx = Background
    /\ iterQ = Query(NilPredicate, <<>>, 0) /\ iterRet = "none"
    /\ rows = <<>> /\ pos = 0 /\ cursorOpen = FALSE /\ closeCount = 0
    /\ item = NoItem /\ yielded = <<>> /\ exitPath = "none"
    /\ ctxCancelled = FALSE /\ cancelledAt = 0
    /\ goCount = 0 /\ goResult = ZeroEntity /\ goIterErr = "nil" /\ goRet = NoRet
    /\ records = <<>>

CompilerIdle ==
    /\ q = Query(NilPredicate, <<>>, 0) /\ depth = 0
    /\ built = NotBuilt /\ where = NotBuilt

\* reading: Iter and GetOne over a store holding any of the tables, with an
\* engine that may fail and a caller that may cancel
Init ==
    /\ NoUpdates
    /\ \E table \in Tables : StoreInit(table)
    /\ faulty = TRUE
    /\ last = NoCall
    /\ CompilerIdle

Next ==
    \/ Iter \/ GetOne \/ RunSeq \/ Fetch
    \/ YieldToLoop \/ YieldToGetOne \/ SeqReturn \/ GetOneReturn
    \/ Cancel

Spec == Init /\ [][Next]_vars

\* writing and transactions: Save, Delete, transactions and reads over a
\* store that starts with one row, with an engine that does not fail
InitTx ==
    /\ NoUpdates
    /\ StoreInit(InitialTable(1))
    /\ faulty = FALSE
    /\ last = Untraced
    /\ CompilerIdle

NextTx ==
    \/ Save \/ Delete
    \/ Begin \/ Commit \/ Rollback
    \/ WithTransactionBegin \/ WithTransactionEnd
    \/ Iter \/ GetOne \/ RunSeq \/ Fetch
    \/ YieldToLoop \/ YieldToGetOne \/ SeqReturn \/ GetOneReturn

SpecTx == InitTx /\ [][NextTx]_vars

\* the compiler alone, over a store that is left at rest
InitCompiler == InitBuild /\ NoUpdates /\ StoreInit(EmptyTable) /\ faulty = FALSE /\ last = NoCall

NextBuild == WrapAlone \/ WrapWith \/ Compile

SpecBuild == InitCompiler /\ [][NextBuild]_vars

\* tables whose payloads do not embed their key: under the first key a
\* payload that names the second key, under the second key a payload
\* without a key
StaleTable ==
    [k \in Keys |->
        IF k = KeyName(1) THEN Row(Entity(KeyName(2), "B"))
        ELSE IF k = KeyName(2) THEN Row(Entity("", "A"))
        ELSE Absent]

\* writing and reading without transactions, by a store of the keyed type
\* and a store of a type without key field on the same table
InitSave ==
    /\ NoUpdates
    /\ \E table \in {InitialTable(1), StaleTable} : StoreInit(table)
    /\ faulty = FALSE
    /\ last = NoCall
    /\ CompilerIdle

NextSave ==
    \/ Save \/ SaveNoKey \/ Delete
    \/ Iter \/ GetOne \/ RunSeq \/ Fetch
    \/ YieldToLoop \/ YieldToGetOne \/ SeqReturn \/ GetOneReturn

SpecSave == InitSave /\ [][NextSave]_vars

\* a table whose payloads hold a value in the untagged field Key: the row
\* under the first key names the second key there, the row under the second
\* key names the first
IterTable ==
    [k \in Keys |->
        IF k = KeyName(1) THEN Row(WithKeyField(Entity(k, "B"), KeyName(2)))
        ELSE IF k = KeyName(2) THEN Row(WithKeyField(Entity(k, "A"), KeyName(1)))
        ELSE Absent]

\* Iter called with any of the compiler's queries, over a store of two rows
InitIter == InitBuild /\ NoUpdates /\ StoreInit(IterTable) /\ faulty = FALSE /\ last = NoCall

NextIter == WrapAlone \/ WrapWith \/ IterQuery

SpecIter == InitIter /\ [][NextIter]_vars

\* an EntityStore on an empty table, and a caller that may hold a
\* transaction of its own (part_010:29-123)
InitEntity ==
    /\ NoUpdates
    /\ StoreInit(EmptyTable)
    /\ faulty = FALSE
    /\ last = NoCall
    /\ CompilerIdle

NextEntity ==
    \/ Begin \/ Commit \/ Rollback
    \/ EntityStoreGet \/ EntityStoreSet \/ EntityStoreUpdate

SpecEntity == InitEntity /\ [][NextEntity]_vars

\* the two RecordStores on an empty table
InitRecords ==
    /\ NoUpdates
    /\ StoreInit(EmptyTable)
    /\ faulty = FALSE
    /\ last = NoCall
    /\ CompilerIdle

NextRecords == RecordStoreAdd \/ RecordStoreList

SpecRecords == InitRecords /\ [][NextRecords]_vars

\* two callers of Update on one key, which holds no row or the row a Set
\* stored, over any of the engines
InitUpdate ==
    /\ engine \in Engines
    /\ stored \in {Absent} \cup {Row(Marshal(u)) : u \in Users}
    /\ version = 0
    /\ update = [i \in Callers |-> IdleUpdate]
    /\ StoreInit(EmptyTable)
    /\ faulty = FALSE
    /\ last = NoCall
    /\ CompilerIdle

NextUpdate ==
    \/ UpdateBeginTx \/ UpdateSelect \/ UpdateUpsert \/ UpdateCommit
    \/ UpdateReturnsError

SpecUpdate == InitUpdate /\ [][NextUpdate]_vars

(***************************************************************************)
(* Properties of reading: GetOne and the sequence of Iter.                 *)
(***************************************************************************)
\* the keys of the rows of table that satisfy predicate p
Matching(table, p) ==
    {k \in Keys : table[k].present /\ Matches(k, table[k].json, p)}

\* the entity a row decodes to: its payload with the key field set
Decoded(table, k) == [table[k].json EXCEPT !.k = k]

\* the rows the context ctx is entitled to see: the transaction's when it
\* carries one, the committed ones otherwise
ViewOf(ctx) == IF ctx.tx # NoTx THEN txdb ELSE db

\* the call went through without an engine failure or a cancellation
NoFailure == \A i \in 1..Len(yielded) : yielded[i].err = "nil"

\* C1: once GetOne(P) has returned, for a predicate P the store accepts and a
\* run without engine failure, the result is the one matching entity and no
\* error when exactly one row matches P, NotFound when none matches, and
\* MultipleResults when two or more match.
C1_GetOneTrichotomy ==
    (iterPc = "done" /\ caller = "getone" /\ iterRet # "builderr" /\ NoFailure) =>
        LET m == Matching(db, iterQ.Predicate) IN
        /\ Cardinality(m) = 1 =>
              (goRet.kind = "ok" /\ \A k \in m : goRet.entity = Decoded(db, k))
        /\ Cardinality(m) = 0 => goRet.kind = "notfound"
        /\ Cardinality(m) >= 2 => goRet.kind = "multiple"

\* C2: in every run of GetOne at most 2 rows are fetched from the cursor: the
\* query's result holds at most 2 rows, the cursor never advances past the
\* second, and GetOne does not fetch again once it has counted two items.
C2_GetOneFetchesAtMostTwo ==
    caller = "getone" =>
        /\ Len(rows) <= 2
        /\ pos <= 2
        /\ goCount <= 2
        /\ goCount >= 2 => iterPc \notin {"next", "yield"}

\* GetOne has returned MultipleResults over three matching rows, two fetched
C2_Witness ==
    /\ iterPc = "done" /\ caller = "getone"
    /\ Cardinality(Matching(db, iterQ.Predicate)) = 3
    /\ pos = 2 /\ goRet.kind = "multiple"

\* C3: the cursor of a sequence is closed exactly once on every way out of
\* its consumption (exhaustion, break, cancellation, scan error, decode
\* error, rows error): never closed twice, closed once consumption is over,
\* and open only while the sequence is not yet consumed to its end.
C3_CursorReleasedOnce ==
    /\ closeCount <= 1
    /\ cursorOpen => (IterActive /\ closeCount = 0)
    /\ (iterPc \in {"goret", "done"} /\ iterRet = "nil") =>
          /\ closeCount = 1 /\ ~cursorOpen
          /\ exitPath \in {"exhausted", "break", "cancelled", "scan", "decode", "rows"}

\* a consumer broke out of the loop after an item, and the cursor was closed
C3_Witness ==
    /\ iterPc = "done" /\ caller = "iter" /\ exitPath = "break"
    /\ Len(yielded) = 1 /\ pos < Len(rows)
    /\ closeCount = 1 /\ ~cursorOpen

\* C4: when the context is cancelled during the consumption of a sequence
\* after N entities were yielded, no more than N+1 entities are ever
\* yielded, and unless the consumer stops by itself or the engine fails the
\* sequence ends with a cancellation error.
C4_CancelSurfaces ==
    /\ (caller = "iter" /\ ctxCancelled) => EntityCount(yielded) <= cancelledAt + 1
    /\ (iterPc = "done" /\ caller = "iter" /\ ctxCancelled
           /\ exitPath \notin {"break", "scan", "decode"}
           /\ (exitPath = "rows" => yielded[Len(yielded)].cause = "ctx")) =>
          /\ Len(yielded) > 0
          /\ yielded[Len(yielded)].cause = "ctx"

(***************************************************************************)
(* Properties of transactions.                                             *)
(***************************************************************************)
\* the items a healthy sequence yields over the rows rs
ItemsOf(rs) == [i \in 1..Len(rs) |-> EntityItem([rs[i].json EXCEPT !.k = rs[i].key])]

\* C5: a query of Iter or GetOne with a transaction in its context is
\* issued and fetched on that transaction: its rows are those of the
\* transaction's view, uncommitted writes included; a query without a
\* transaction in its context gets the committed rows only.
C5_ReadsFollowContext ==
    LET expected == QueryRows(ViewOf(iterCtx),
                              build(iterQ, tableName, validJSONKeys, keyFieldJSONName),
                              iterQ.Predicate)
    IN /\ cursorOpen => rows = expected
       /\ (iterPc = "exit" /\ exitPath = "exhausted") => yielded = ItemsOf(expected)
       /\ (iterPc = "goret" /\ iterQ.Predicate = Filter("k", OpEq, Scalar(KeyName(1)))) =>
             GetOneResult(goCount, goResult, goIterErr).kind
                 = IF ViewOf(iterCtx)[KeyName(1)].present THEN "ok" ELSE "notfound"

\* a sequence read to its end inside a transaction whose view differs from
\* the committed rows, and yielded what only the transaction holds
C5_Witness ==
    /\ iterPc = "exit" /\ exitPath = "exhausted" /\ caller = "iter"
    /\ txOpen /\ GetTx(iterCtx).ok
    /\ iterQ.Predicate.type = "nil"
    /\ Len(yielded) > 0
    /\ yielded # ItemsOf(QueryRows(db, build(iterQ, tableName, validJSONKeys, keyFieldJSONName),
                                   iterQ.Predicate))

\* C6: the step that rolls a transaction back leaves the committed rows as
\* they were when the transaction began, whatever Save and Delete did in it,
\* and the transaction's view is gone.
C6_RollbackRestores ==
    [][(txOpen /\ ~txOpen' /\ txEnd' = "rollback") => (db' = dbAtBegin /\ txdb' = dbAtBegin)]_vars

\* a caller's transaction that saved a row under a new key was rolled back
C6_Witness ==
    /\ ~txOpen /\ txEnd = "rollback" /\ wtPc = "idle"
    /\ ops = 2 /\ txSeq = 1
    /\ usedKeys # {k \in Keys : db[k].present}
    /\ db = dbAtBegin

\* C7: while fn runs, its context carries the transaction WithTransaction
\* began; when fn returns, Commit is called exactly when fn returned nil;
\* when fn returned an error, WithTransaction returns that error and the
\* committed rows are those from before the transaction.
C7_WithTransactionOutcome ==
    /\ [](wtPc = "fn" => (txOpen /\ GetTx(wtCtx) = [tx |-> txSeq, ok |-> TRUE]))
    /\ [][(wtPc = "fn" /\ wtPc' = "done") =>
            /\ wtCommitCalled' <=> (wtFnErr' = "nil")
            /\ wtFnErr' # "nil" =>
                  (wtRet' = wtFnErr' /\ txEnd' = "rollback" /\ db' = dbAtBegin /\ txdb' = dbAtBegin)
            /\ txEnd' = "commit" => (wtRet' = "nil" /\ db' = txdb)]_vars

\* fn saved a row under a new key and returned an error
C7_Witness ==
    /\ wtPc = "done" /\ wtFnErr = "fnErr" /\ wtRet = "fnErr" /\ ~wtCommitCalled
    /\ ops = 2 /\ txSeq = 1
    /\ usedKeys # {k \in Keys : db[k].present}
    /\ db = dbAtBegin

(***************************************************************************)
(* Helpers of the compiler's properties.                                   *)
(***************************************************************************)
IsCombinator(p) == p.type \in {"And", "Or"}
IsEmptyCombinator(p) == IsCombinator(p) /\ Len(p.Predicates) = 0

\* some And/Or with zero children sits inside another And/Or of p
RECURSIVE HasNestedEmpty(_)
HasNestedEmpty(p) ==
    /\ IsCombinator(p)
    /\ \E i \in 1..Len(p.Predicates) :
          IsEmptyCombinator(p.Predicates[i]) \/ HasNestedEmpty(p.Predicates[i])

\* the filters of a predicate tree
RECURSIVE FiltersOf(_)
FiltersOf(p) ==
    IF p.type = "Filter" THEN {p}
    ELSE IF IsCombinator(p)
    THEN UNION {FiltersOf(p.Predicates[i]) : i \in 1..Len(p.Predicates)}
    ELSE {}

\* the text holds "()": an opening parenthesis directly followed by a closing one
HasEmptyParens(t) == \E i \in 1..(Len(t) - 1) : t[i] = "(" /\ t[i + 1] = ")"

\* the text holds a joiner with no operand on one side: "( AND", "OR )", or a
\* joiner next to "()"
HasDanglingJoiner(t) ==
    \E i \in 1..Len(t) :
        /\ t[i] \in {"AND", "OR"}
        /\ \/ i < 3 \/ i + 2 > Len(t)
           \/ t[i - 1] # ")" \/ t[i + 1] # "("
           \/ t[i - 2] = "(" \/ t[i + 2] = ")"

HasWhere(t) == \E i \in 1..Len(t) : t[i] = "WHERE"

\* a top-level field the store's type does not have
InvalidTopLevel(f) ==
    ~ContainsDot(f) /\ f # keyFieldJSONName /\ f \notin validJSONKeys

\* v is a filter whose operator and value are acceptable on their own
WellFormedFilter(v) ==
    \/ v.Op \in {OpEq, OpNEq, OpGT, OpGTE, OpLT, OpLTE}
    \/ v.Op \in {OpIn, OpNotIn} /\ v.Value.kind \in {"slice", "array"} /\ ~v.Value.isNil

(***************************************************************************)
(* C8: an And/Or with zero children compiles to empty text and no          *)
(* arguments (so the query has no WHERE clause), and a predicate holding   *)
(* an empty combinator nested inside another And/Or compiles to text with  *)
(* neither "()" nor a dangling AND/OR.                                     *)
(* The code emits "()" for And{And{}}: joinPredicates wraps every child's  *)
(* clause in parentheses, the empty one included.                          *)
(***************************************************************************)
C8_EmptyCombinatorLeavesNoTrace ==
    (Compiled /\ ~IsErr(built)) =>
        /\ IsEmptyCombinator(q.Predicate) =>
              (where = Ok(<<>>, <<>>) /\ ~HasWhere(built.sql))
        /\ HasNestedEmpty(q.Predicate) =>
              (~HasEmptyParens(built.sql) /\ ~HasDanglingJoiner(built.sql))

(***************************************************************************)
(* C9: a predicate with a filter on a top-level field that is neither the  *)
(* key field nor a field of the type fails to compile with an invalid-     *)
(* field error naming it, whatever the operator (IN / NOT IN with an       *)
(* empty list included); a field with a '.' is never rejected.             *)
(* Stated for the predicates in which that filter is the only possible     *)
(* cause of failure: every filter has a supported operator and, for        *)
(* IN / NOT IN, a non-nil sequence, and one field name is invalid.         *)
(* The code returns "1 = 0" / "1 = 1" for an empty list before it looks    *)
(* at the field.                                                           *)
(***************************************************************************)
C9_InvalidFieldRejected ==
    (Compiled /\ q.OrderBy = <<>>) =>
        /\ \A f \in FieldNames :
              ( /\ \A v \in FiltersOf(q.Predicate) : WellFormedFilter(v)
                /\ {v.Key : v \in {w \in FiltersOf(q.Predicate) : InvalidTopLevel(w.Key)}} = {f}
              ) => (built.err.kind = "InvalidField" /\ built.err.field = f)
        /\ built.err.kind = "InvalidField" => ~ContainsDot(built.err.field)

(***************************************************************************)
(* C10: IN over a non-nil empty sequence compiles to the always-false      *)
(* literal "1 = 0" with no arguments, NOT IN over one to the always-true   *)
(* literal "1 = 1" with no arguments, neither is an error; a nil slice or  *)
(* a value that is no sequence is a compile error.                         *)
(***************************************************************************)
C10_EmptyInLiteral ==
    (Compiled /\ q.Predicate.type = "Filter" /\ q.Predicate.Op \in {OpIn, OpNotIn}) =>
        LET v == q.Predicate.Value IN
        /\ (v.kind \in {"slice", "array"} /\ ~v.isNil /\ Len(v.elems) = 0) =>
              where = Ok(<<"1", "=", IF q.Predicate.Op = OpIn THEN "0" ELSE "1">>, <<>>)
        /\ (v.kind = "slice" /\ v.isNil) =>
              (where.err.kind = "NilValues" /\ built.err.kind = "NilValues")
        /\ v.kind \notin {"slice", "array"} =>
              (where.err.kind = "RequiresSlice" /\ built.err.kind = "RequiresSlice")

C10_Witness ==
    /\ Compiled
    /\ q.Predicate = Filter("bogus", OpNotIn, Slice(<<>>))
    /\ where.sql = <<"1", "=", "1">>
    /\ ~IsErr(built)

\* the number of tokens tok in the text t
RECURSIVE CountToken(_, _)
CountToken(t, tok) ==
    IF Len(t) = 0 THEN 0
    ELSE (IF Head(t) = tok THEN 1 ELSE 0) + CountToken(Tail(t), tok)

\* C11: whenever a query compiles, its argument list is as long as the
\* number of "?" placeholders in its text; the same holds for the WHERE
\* clause alone.
C11_ArgsMatchPlaceholders ==
    Compiled =>
        /\ ~IsErr(built) => Len(built.args) = CountToken(built.sql, "?")
        /\ ~IsErr(where) => Len(where.args) = CountToken(where.sql, "?")

\* a compiled query with a WHERE clause, two order keys and a limit
C11_Witness ==
    /\ Compiled /\ ~IsErr(built)
    /\ HasWhere(built.sql) /\ HasToken(built.sql, "ORDER BY") /\ HasToken(built.sql, "LIMIT")
    /\ Len(q.OrderBy) = 2
    /\ Len(built.args) = 4

\* C12: when the compilation of a query fails, whatever the reason, build
\* returns no text and no arguments, Iter returns no sequence but the
\* error, no query reaches the engine and no cursor is opened.
C12_BuildErrorAbortsIter ==
    (Compiled /\ IsErr(built)) =>
        /\ built.sql = <<>> /\ built.args = <<>>
        /\ iterRet = "builderr" /\ iterPc = "done"
        /\ ~cursorOpen /\ rows = <<>> /\ pos = 0 /\ closeCount = 0

\* Iter was called with a filter whose operator is "INVALID", over a table
\* that holds a row
C12_Witness ==
    /\ Compiled /\ built.err.kind = "UnsupportedOperator"
    /\ iterRet = "builderr" /\ iterPc = "done"
    /\ \E k \in Keys : db[k].present

(***************************************************************************)
(* Properties of Save, Delete and decoding.                                *)
(***************************************************************************)
\* the keys that hold a row
Present(table) == {k \in Keys : table[k].present}

\* the step is a call of op
IsCall(op) == last'.op = op /\ ops' = ops + 1

\* the step changes no row but the one under key
OnlyRow(key) == \A k \in Keys \ {key} : db'[k] = db[k]

C14_SaveWithoutKey ==
    [][IsCall("SaveNoKey") =>
          LET key == last'.key
          IN /\ key # "" /\ key \notin usedKeys /\ ~db[key].present
             /\ db'[key] = Row(last'.arg)
             /\ last'.out = last'.arg
             /\ OnlyRow(key)
             /\ Cardinality(Present(db')) = Cardinality(Present(db)) + 1]_vars

\* two equal entities were saved and sit under two keys
C14_Witness ==
    /\ last.op = "SaveNoKey" /\ ops = 2
    /\ \E k1 \in Keys, k2 \in Keys :
          /\ k1 # k2 /\ last.key = k2
          /\ db[k1] = Row(last.arg) /\ db[k2] = Row(last.arg)

\* C15: Delete(key) leaves no row under key and every other row as it was,
\* also when no row was stored under key; a GetOne filtering on a key that
\* holds no row returns NotFound.
C15_DeleteRemoves ==
    /\ [][IsCall("Delete") => (~db'[last'.key].present /\ OnlyRow(last'.key))]_vars
    /\ []((/\ iterPc = "goret"
           /\ iterQ.Predicate = Filter("k", OpEq, Scalar(KeyName(1)))
           /\ ~db[KeyName(1)].present)
              => GetOneResult(goCount, goResult, goIterErr).kind = "notfound")

\* a row that was stored has been deleted, another row is still there
C15_Witness ==
    /\ last.op = "Delete" /\ last.key \in usedKeys
    /\ ~db[last.key].present
    /\ Present(db) # {}

RowKeys == {rows[i].key : i \in 1..Len(rows)}

\* the filter was compiled to the literal of an empty list
IsEmptyList(p) == p.Op \in {OpIn, OpNotIn} /\ Len(p.Value.elems) = 0

\* C17: a filter on the field tagged as key compiles to a comparison of the
\* key column whose arguments are the filter's values and nothing else, and
\* selects the rows by their key column; a filter on the untagged field
\* named "key" or "id" compiles to a comparison of json_extract whose first
\* argument is the field's JSON path, and selects the rows by what their
\* payload holds in that field.
C17_KeyFieldOnKeyColumn ==
    (Compiled /\ q.Predicate.type = "Filter" /\ ~IsErr(where)) =>
        LET p == q.Predicate
            n == IF p.Op \in {OpIn, OpNotIn} THEN Len(p.Value.elems) ELSE 1
        IN /\ (p.Key = keyFieldJSONName /\ ~IsEmptyList(p)) =>
                  /\ where.sql[1] = "key" /\ where.sql[2] = p.Op
                  /\ ~HasToken(where.sql, "json_extract(json,")
                  /\ Len(where.args) = n /\ CountToken(where.sql, "?") = n
                  /\ \A i \in 1..n : DOMAIN where.args[i] = {"val"}
                  /\ (p.Op \notin {OpIn, OpNotIn} => where.args[1] = ValArg(p.Value))
                  /\ (p.Op \in {OpIn, OpNotIn} => where.args = ValArgs(p.Value.elems))
           /\ (p.Key \in {"key", "id"} /\ ~IsEmptyList(p)) =>
                  /\ where.sql[1] = "json_extract(json," /\ where.sql[4] = p.Op
                  /\ ~HasToken(where.sql, "key")
                  /\ Len(where.args) = n + 1
                  /\ where.args[1] = PathArg(p.Key)
           /\ (iterRet = "nil" /\ p.Key = keyFieldJSONName) =>
                  RowKeys = {k \in Keys : db[k].present /\ Compare(k, p.Op, p.Value)}
           /\ (iterRet = "nil" /\ p.Key \in {"key", "id"}) =>
                  RowKeys = {k \in Keys : db[k].present
                                            /\ Compare(db[k].json[p.Key], p.Op, p.Value)}

\* a filter on the untagged field "key" with the first key as value selected
\* the row under the second key, whose payload names the first key there
C17_Witness ==
    /\ Compiled /\ iterRet = "nil"
    /\ q.Predicate = Filter("key", OpEq, Scalar(KeyName(1)))
    /\ where = Ok(<<"json_extract(json,", "?", ")", "=", "?">>,
                  <<PathArg("key"), ValArg(Scalar(KeyName(1)))>>)
    /\ RowKeys = {KeyName(2)}

\* the step is a call of op of the EntityStore that writes
IsWrite(op) == last'.op = op /\ ops' = ops + 1

\* C18: a Set or an Update made with a context that carries a transaction
\* writes inside the transaction: the step leaves what the plain connection
\* sees unchanged and puts the record into what the transaction sees, and a
\* rollback leaves the plain connection with what it saw when the
\* transaction began.
C18_WritesInsideTx ==
    /\ [][((IsWrite("Set") \/ (IsWrite("Update") /\ DOMAIN last'.arg # {}))
               /\ last'.tx # NoTx)
              => (db' = db /\ txdb'[last'.key].present)]_vars
    /\ [](txEnd = "rollback" => db = dbAtBegin)

\* the stored object under key before the step, empty when there is none
StoredObject(key) == IF db[key].present THEN db[key].json ELSE EmptyObject

\* C19: Update(key, partial) leaves under key the object stored before with
\* every field of partial set to partial's value and every other field as it
\* was; with no record under key it stores exactly partial; with an empty
\* partial it changes nothing; the records under other keys stay as they
\* are.
C19_UpdateMerges ==
    [][IsWrite("Update") =>
          LET key == last'.key
              partial == last'.arg
              old == StoredObject(key)
          IN /\ DOMAIN partial = {} => db' = db
             /\ DOMAIN partial # {} =>
                   /\ db'[key].present
                   /\ DOMAIN db'[key].json = DOMAIN old \cup DOMAIN partial
                   /\ \A f \in DOMAIN partial : db'[key].json[f] = partial[f]
                   /\ \A f \in DOMAIN old \ DOMAIN partial : db'[key].json[f] = old[f]
             /\ \A k \in Keys \ {key} : db'[k] = db[k]]_vars

\* the step is a call of Get
IsGet == last'.op = "Get" /\ last' # last

C22_CancelCheckedBeforeFetch ==
    [][(iterPc = "next" /\ ctxCancelled)
          => (pos' = pos /\ iterPc' = "yield" /\ item'.cause = "ctx")]_vars

\* the sequence is in use
InSequence == iterPc \in {"next", "yield", "exit"}

\* the sequence has yielded an error item
ErrorYielded == Len(yielded) > 0 /\ yielded[Len(yielded)].err # "nil"

\* C25: an error item is the last item of its sequence: only the last item
\* yielded can be an error, and once it is yielded no row is fetched and
\* nothing is yielded any more; what was yielded stays as it was.
C25_ErrorEndsSequence ==
    /\ [](\A i \in 1..(Len(yielded) - 1) : yielded[i].err = "nil")
    /\ [][(InSequence /\ ErrorYielded)
             => (pos' = pos /\ yielded' = yielded /\ iterPc' \notin {"next", "yield"})]_vars
    /\ [][InSequence
             => (Len(yielded') >= Len(yielded)
                   /\ SubSeq(yielded', 1, Len(yielded)) = yielded)]_vars

\* an entity, then a decode error, and a row that was never fetched
C25_Witness ==
    /\ iterPc = "done" /\ caller = "iter"
    /\ Len(yielded) = 2 /\ yielded[1].err = "nil" /\ yielded[2].err = "decode"
    /\ pos = 2 /\ Len(rows) = 3

\* C27: when the sequence GetOne consumes yields an error item, as first
\* item or after an entity, GetOne returns the zero value and the
\* iteration-failed error that wraps the item's error: not the entity seen,
\* not NotFound, not MultipleResults.
C27_GetOnePropagatesError ==
    (iterPc = "done" /\ caller = "getone" /\ ErrorYielded) =>
        /\ goRet = [kind |-> "iterfailed", entity |-> ZeroEntity]
        /\ goIterErr = yielded[Len(yielded)].err

\* GetOne saw an entity and then a scan error
C27_Witness ==
    /\ iterPc = "done" /\ caller = "getone"
    /\ Len(yielded) = 2 /\ yielded[1].err = "nil" /\ yielded[2].err = "scan"
    /\ goCount = 1 /\ goRet.kind = "iterfailed"

PlaceholderAt(t, i) ==
    CHOOSE j \in 1..Len(t) : t[j] = "?" /\ CountToken(SubSeq(t, 1, j), "?") = i

\* the arguments of a predicate, depth first and left to right: for a
\* filter its path, unless it is on the key field, and then its value or
\* values; nothing for the literal of an empty list
RECURSIVE PredicateArgs(_)
PredicateArgs(p) ==
    IF p.type = "Filter"
    THEN IF IsEmptyList(p) THEN <<>>
         ELSE (IF p.Key = keyFieldJSONName THEN <<>> ELSE <<PathArg(p.Key)>>)
              \o (IF p.Op \in {OpIn, OpNotIn} THEN ValArgs(p.Value.elems)
                  ELSE <<ValArg(p.Value)>>)
    ELSE IF p.type \in {"And", "Or"}
    THEN IF Len(p.Predicates) = 0 THEN <<>>
         ELSE PredicateArgs(Head(p.Predicates))
              \o PredicateArgs([p EXCEPT !.Predicates = Tail(p.Predicates)])
    ELSE <<>>

\* one path for every order-by entry that is not on the key field
RECURSIVE OrderArgs(_)
OrderArgs(obs) ==
    IF Len(obs) = 0 THEN <<>>
    ELSE (IF Head(obs).Key = keyFieldJSONName THEN <<>> ELSE <<PathArg(Head(obs).Key)>>)
         \o OrderArgs(Tail(obs))

\* C23: for every query that compiles, the arguments are those of the
\* predicate tree depth first and left to right, then one path for each
\* order-by entry that is not on the key field, then the limit if it is
\* positive; and the i-th argument is what the i-th "?" of the text stands
\* for: a path after json_extract, the limit after LIMIT, a value elsewhere.
\* A limit of zero or less leaves no LIMIT clause and no argument.
C23_ArgsInPlaceholderOrder ==
    (Compiled /\ ~IsErr(built)) =>
        /\ built.args = PredicateArgs(q.Predicate) \o OrderArgs(q.OrderBy)
                          \o (IF q.Limit > 0 THEN <<LimitArg(q.Limit)>> ELSE <<>>)
        /\ Len(built.args) = CountToken(built.sql, "?")
        /\ \A i \in 1..Len(built.args) :
              LET j == PlaceholderAt(built.sql, i)
                  before == built.sql[j - 1]
              IN /\ ("path" \in DOMAIN built.args[i]) <=> (before = "json_extract(json,")
                 /\ ("limit" \in DOMAIN built.args[i]) <=> (before = "LIMIT")
                 /\ ("limit" \in DOMAIN built.args[i]) => i = Len(built.args)
        /\ (q.Limit <= 0) => ~HasToken(built.sql, "LIMIT")

\* a filter beside a sibling inside a combinator, two order-by entries of
\* which one on the key field, and a limit
C23_Witness ==
    /\ Compiled /\ ~IsErr(built)
    /\ q.Predicate.type = "And" /\ Len(q.Predicate.Predicates) = 2
    /\ Len(q.OrderBy) = 2 /\ q.Limit = 2
    /\ built.args = <<PathArg("name"), ValArg(Scalar(KeyName(1))),
                      PathArg("name"), ValArg(Scalar(KeyName(1))),
                      PathArg("a.b"), LimitArg(2)>>

\* what becomes of an order-by entry: rejected for its direction, ordered
\* by the key column, rejected for its field, or ordered by json_extract
OrderEntry(o) ==
    IF o.Direction \notin {OrderAsc, OrderDesc} THEN "direction"
    ELSE IF o.Key = keyFieldJSONName THEN "key"
    ELSE IF (~ContainsDot(o.Key) /\ o.Key \notin validJSONKeys) \/ ContainsBadChar(o.Key)
    THEN "field"
    ELSE "json"

\* the text of the order-by entries obs, none of them rejected
OrderText(obs) ==
    Join([i \in 1..Len(obs) |->
             IF OrderEntry(obs[i]) = "key" THEN <<"key", obs[i].Direction>>
             ELSE <<"json_extract(json,", "?", ")", obs[i].Direction>>], <<",">>)

RECURSIVE FirstPredicateError(_)
FirstPredicateError(p) ==
    IF p.type = "Filter" THEN buildFilter(p, validJSONKeys, keyFieldJSONName).err
    ELSE IF p.type \in {"And", "Or"}
    THEN IF Len(p.Predicates) = 0 THEN NoErr
         ELSE LET e == FirstPredicateError(Head(p.Predicates))
              IN IF e # NoErr THEN e
                 ELSE FirstPredicateError([p EXCEPT !.Predicates = Tail(p.Predicates)])
    ELSE [kind |-> "UnknownPredicate"]

\* the error of the first invalid order-by entry; NoErr when there is none
RECURSIVE FirstOrderError(_)
FirstOrderError(obs) ==
    IF Len(obs) = 0 THEN NoErr
    ELSE LET o == Head(obs) IN
         IF OrderEntry(o) = "direction"
         THEN [kind |-> "InvalidOrderDirection", dir |-> o.Direction]
         ELSE IF OrderEntry(o) = "field"
         THEN [kind |-> IF ContainsBadChar(o.Key) THEN "InvalidOrderChar"
                        ELSE "InvalidOrderKey",
               field |-> o.Key]
         ELSE FirstOrderError(Tail(obs))

\* C26: build reports the error of the first invalid part in the order of
\* compilation, and nothing else: the first invalid part of the predicate
\* tree, depth first and left to right, whatever follows it; if the
\* predicate is valid, the first invalid order-by entry; no text and no
\* arguments come with the error.
C26_FirstErrorWins ==
    Compiled =>
        LET pe == IF q.Predicate.type = "nil" THEN NoErr
                  ELSE FirstPredicateError(q.Predicate)
            oe == FirstOrderError(q.OrderBy)
        IN IF pe # NoErr THEN built = Fail(pe) /\ where = Fail(pe)
           ELSE IF oe # NoErr THEN built = Fail(oe) /\ ~IsErr(where)
           ELSE ~IsErr(built)

\* an unknown field, then an unsupported operator, then a bad direction: the
\* unknown field is reported
C26_Witness ==
    /\ Compiled /\ depth = 0
    /\ q.Predicate.type = "And" /\ Len(q.Predicate.Predicates) = 2
    /\ q.Predicate.Predicates[2].Op = "INVALID"
    /\ q.OrderBy = <<OrderBy("name", "BAD")>>
    /\ built = Fail([kind |-> "InvalidField", field |-> "bogus"])

(***************************************************************************)
(* Properties of the stored rows.                                          *)
(***************************************************************************)
\* every row of table embeds its key column in the key field of its payload
KeysEmbedded(table) == \A k \in Keys : table[k].present => table[k].json.k = k

\* C28: after any sequence of Save and Delete calls by the store of the
\* keyed type, inside and outside transactions, every stored row holds in
\* the key field of its payload the key it is stored under, so that the
\* order of the key column is the order of the extracted key field.
C28_KeyColumnEmbedded == KeysEmbedded(db) /\ KeysEmbedded(txdb)

\* the row the store started with was deleted and another row was saved
C28_Witness ==
    /\ ~db[KeyName(1)].present /\ db[KeyName(2)].present
    /\ db[KeyName(2)].json.k = KeyName(2)
    /\ ops = 2 /\ ~txOpen /\ txSeq = 0

(***************************************************************************)
(* Properties of the RecordStore.                                          *)
(***************************************************************************)
\* the positions in records of the rows added for entityID by the store
\* with record type recordType
AddedFor(entityID, recordType) ==
    {i \in 1..Len(records) : /\ records[i].entity_id = entityID
                             /\ records[i].record_type = recordType}

\* of the positions idx, the one with j - 1 later positions in idx
NthNewest(idx, j) == CHOOSE i \in idx : Cardinality({i2 \in idx : i2 > i}) = j - 1

\* the answer of the List call in last is the n most recently added items
\* for its entity ID and record type, newest first
ListedMostRecent(n) ==
    LET idx == AddedFor(last.entityID, last.recordType)
    IN /\ Len(last.out) = n
       /\ \A j \in 1..n : last.out[j] = ChatMsg(records[NthNewest(idx, j)].json.content)

ListWithinLimit ==
    last.op = "List" =>
        LET count == Cardinality(AddedFor(last.entityID, last.recordType))
        IN ListedMostRecent(IF 0 <= last.arg /\ last.arg < count THEN last.arg ELSE count)

(***************************************************************************)
(* Properties of concurrent Update calls.                                  *)
(***************************************************************************)
\* the stored row holds every field of the partial of caller i
HoldsPartial(i) ==
    /\ stored.present
    /\ \A f \in DOMAIN PartialOf(i) :
          f \in DOMAIN stored.json /\ stored.json[f] = PartialOf(i)[f]

\* C30: two concurrent Update calls on one key with disjoint fields: in
\* every interleaving of their steps, when both have returned without error
\* the stored record holds the fields of both partials; and an Update
\* commits only a merge computed from the version of the record that is the
\* committed one at that moment, never from one that another committed
\* Update has replaced.
C30_NoLostUpdate ==
    /\ []((\A i \in Callers : update[i].ret = "nil") => \A i \in Callers : HoldsPartial(i))
    /\ [][\A i \in Callers :
            (update[i].ret = "none" /\ update'[i].ret = "nil") =>
                update[i].readAt = version]_vars

\* both calls have returned without error, both have committed, and the
\* record holds the fields of both partials
C30_Witness ==
    /\ \A i \in Callers : update[i].ret = "nil" /\ update[i].pc = "done"
    /\ version = 2
    /\ stored.present
    /\ stored.json.username = "baz" /\ stored.json.age = "41"

====
